---- MODULE Spec2Model ----
(***************************************************************************)
(* The bead sorter's classification state machine: the bounded online      *)
(* colour palette of sorter_logic (Palette<N>, PaletteEntry, Rgb::dist_lab)*)
(* and the tube assigner of fw (BeadSorter::get_tube_for_image).           *)
(*                                                                         *)
(* Colours are records [r, g, b] of 8-bit channels.  Option<T> is a        *)
(* sequence of length at most one: <<>> is None and <<v>> is Some(v).      *)
(* The palette array keeps the source's 0-based indices; the tube roster   *)
(* (a heapless Vec) is a sequence, so tube id t is tubes[t + 1].           *)
(***************************************************************************)
EXTENDS Integers, Sequences, FiniteSets, TLC

\* Palette capacity, the const parameter N of Palette<N>.  BeadSorter uses
\* Palette<128> and the tests Palette<5> and Palette<30>; the model keeps N
\* small so that a full palette is reached.
N == 3

\* Capacity of the tube roster: Vec<PaletteEntry, 30> and the literal 30 of
\* `self.tubes.len() < 30`, scaled down with N (TubeCap < N, as 30 < 128) so
\* that the roster fills before the palette does.
TubeCap == 2

\* Bounds on the number of calls of one behaviour (the accumulators only
\* grow): of get_tube_for_image, and of the palette's own methods.
MaxCalls == 6
MaxPaletteCalls == 5
\* ... and of get_tube_for_image on frames.
MaxFrameCalls == 3

\* palette_to_tube's "unassigned" sentinel, 0xFF.
UNASSIGNED == 255

\* The match threshold get_tube_for_image passes to match_color.
THRESHOLD == 15

\* The initial min_dist / min_d of both nearest-neighbour scans.  The code uses
\* u32::MAX; TLC's integers end at 2^31 - 1, and any value above the largest
\* dist_lab (below 10^6) behaves the same.
U32_MAX == 2147483647

None == <<>>
Some(v) == <<v>>

\* The element of a singleton set.  An intermediate value that is used more
\* than once is bound as `x \in {e}`, so that it is computed once.
The(S) == CHOOSE x \in S : TRUE

Rgb(r, g, b) == [r |-> r, g |-> g, b |-> b]

----------------------------------------------------------------------------
\* PaletteEntry: the running-sum accumulator.  The sums are u32 (sum_var u64)
\* and grow by at most 255 (a u32 variance) per sample, so the `+=` of add
\* cannot wrap within any number of calls the model reaches.

\* Faulty variant: the new entry starts empty instead of holding its sample.
PaletteEntry_new_empty(rgb, var) ==
    [sum_r |-> 0, sum_g |-> 0, sum_b |-> 0, sum_var |-> 0, count |-> 0]

PaletteEntry_new(rgb, var) ==
    [sum_r |-> rgb.r, sum_g |-> rgb.g, sum_b |-> rgb.b, sum_var |-> var, count |-> 1]

\* Faulty variant: the green sum takes the red channel.
PaletteEntry_add_swapped(e, rgb, var) ==
    [sum_r |-> e.sum_r + rgb.r, sum_g |-> e.sum_g + rgb.r, sum_b |-> e.sum_b + rgb.b,
     sum_var |-> e.sum_var + var, count |-> e.count + 1]

PaletteEntry_add(e, rgb, var) ==
    [sum_r |-> e.sum_r + rgb.r, sum_g |-> e.sum_g + rgb.g, sum_b |-> e.sum_b + rgb.b,
     sum_var |-> e.sum_var + var, count |-> e.count + 1]

\* Faulty variant: the quotients round to nearest instead of down.
PaletteEntry_avg_rounded(e) ==
    IF e.count = 0
    THEN [rgb |-> Rgb(0, 0, 0), var |-> 0]
    ELSE [rgb |-> Rgb(((e.sum_r + (e.count \div 2)) \div e.count) % 256,
                      ((e.sum_g + (e.count \div 2)) \div e.count) % 256,
                      ((e.sum_b + (e.count \div 2)) \div e.count) % 256),
          var |-> (e.sum_var + (e.count \div 2)) \div e.count]

\* `as u8` keeps the low 8 bits; `as u32` of the u64 quotient the low 32 (the
\* quotient of a sum of u32 variances stays below 2^32).
PaletteEntry_avg(e) ==
    IF e.count = 0
    THEN [rgb |-> Rgb(0, 0, 0), var |-> 0]
    ELSE [rgb |-> Rgb((e.sum_r \div e.count) % 256,
                      (e.sum_g \div e.count) % 256,
                      (e.sum_b \div e.count) % 256),
          var |-> e.sum_var \div e.count]

----------------------------------------------------------------------------
\* Rgb::to_lab and Rgb::dist_lab, in fixed point.  The code computes in f32;
\* here every intermediate is an integer scaled by a power of ten chosen so
\* that no product leaves TLC's 31 bits.  The integer triple agrees with the
\* formula's to within one unit per component.

\* sRGB linearisation of one channel c/255, scaled by 10^4:
\* ((v + 0.055) / 1.055)^2.4 if v > 0.04045, else v / 12.92.
LinTable == <<
    0, 3, 6, 9, 12, 15, 18, 21, 24, 27, 30, 33, 37, 40, 44, 48,
    52, 56, 60, 65, 70, 75, 80, 86, 91, 97, 103, 110, 116, 123, 130, 137,
    144, 152, 160, 168, 176, 185, 194, 203, 212, 222, 232, 242, 252, 262, 273, 284,
    296, 307, 319, 331, 343, 356, 369, 382, 395, 409, 423, 437, 452, 467, 482, 497,
    513, 529, 545, 561, 578, 595, 612, 630, 648, 666, 685, 704, 723, 742, 762, 782,
    802, 823, 844, 865, 887, 908, 931, 953, 976, 999, 1022, 1046, 1070, 1095, 1119, 1144,
    1170, 1195, 1221, 1248, 1274, 1301, 1329, 1356, 1384, 1413, 1441, 1470, 1500, 1529, 1559, 1590,
    1620, 1651, 1683, 1714, 1746, 1779, 1812, 1845, 1878, 1912, 1946, 1981, 2016, 2051, 2086, 2122,
    2159, 2195, 2232, 2270, 2307, 2346, 2384, 2423, 2462, 2502, 2542, 2582, 2623, 2664, 2705, 2747,
    2789, 2831, 2874, 2918, 2961, 3005, 3050, 3095, 3140, 3185, 3231, 3278, 3325, 3372, 3419, 3467,
    3515, 3564, 3613, 3663, 3712, 3763, 3813, 3864, 3916, 3968, 4020, 4072, 4125, 4179, 4233, 4287,
    4342, 4397, 4452, 4508, 4564, 4621, 4678, 4735, 4793, 4851, 4910, 4969, 5029, 5089, 5149, 5210,
    5271, 5333, 5395, 5457, 5520, 5583, 5647, 5711, 5776, 5841, 5906, 5972, 6038, 6105, 6172, 6240,
    6308, 6376, 6445, 6514, 6584, 6654, 6724, 6795, 6867, 6939, 7011, 7084, 7157, 7231, 7305, 7379,
    7454, 7529, 7605, 7682, 7758, 7835, 7913, 7991, 8070, 8148, 8228, 8308, 8388, 8469, 8550, 8632,
    8714, 8796, 8879, 8963, 9047, 9131, 9216, 9301, 9387, 9473, 9560, 9647, 9734, 9823, 9911, 10000 >>

Linear(c) == LinTable[c + 1]

\* Truncation toward zero, as `f32 as i32` does.
TruncDiv(n, d) == IF n >= 0 THEN n \div d ELSE -((-n) \div d)

\* Cube roots of the multiples of 10^-3 in [0, 1.001], scaled by 10^4 and
\* rounded down: entry k + 1 is the largest r with r^3 <= k * 10^9.
CubeRootTable == <<
    0, 1000, 1259, 1442, 1587, 1709, 1817, 1912, 2000, 2080, 2154, 2223, 2289, 2351,
    2410, 2466, 2519, 2571, 2620, 2668, 2714, 2758, 2802, 2843, 2884, 2924, 2962, 3000,
    3036, 3072, 3107, 3141, 3174, 3207, 3239, 3271, 3301, 3332, 3361, 3391, 3419, 3448,
    3476, 3503, 3530, 3556, 3583, 3608, 3634, 3659, 3684, 3708, 3732, 3756, 3779, 3802,
    3825, 3848, 3870, 3892, 3914, 3936, 3957, 3979, 4000, 4020, 4041, 4061, 4081, 4101,
    4121, 4140, 4160, 4179, 4198, 4217, 4235, 4254, 4272, 4290, 4308, 4326, 4344, 4362,
    4379, 4396, 4414, 4431, 4447, 4464, 4481, 4497, 4514, 4530, 4546, 4562, 4578, 4594,
    4610, 4626, 4641, 4657, 4672, 4687, 4702, 4717, 4732, 4747, 4762, 4776, 4791, 4805,
    4820, 4834, 4848, 4862, 4876, 4890, 4904, 4918, 4932, 4946, 4959, 4973, 4986, 5000,
    5013, 5026, 5039, 5052, 5065, 5078, 5091, 5104, 5117, 5129, 5142, 5155, 5167, 5180,
    5192, 5204, 5217, 5229, 5241, 5253, 5265, 5277, 5289, 5301, 5313, 5325, 5336, 5348,
    5360, 5371, 5383, 5394, 5406, 5417, 5428, 5440, 5451, 5462, 5473, 5484, 5495, 5506,
    5517, 5528, 5539, 5550, 5561, 5572, 5582, 5593, 5604, 5614, 5625, 5635, 5646, 5656,
    5667, 5677, 5687, 5698, 5708, 5718, 5728, 5738, 5748, 5758, 5768, 5778, 5788, 5798,
    5808, 5818, 5828, 5838, 5848, 5857, 5867, 5877, 5886, 5896, 5905, 5915, 5924, 5934,
    5943, 5953, 5962, 5972, 5981, 5990, 6000, 6009, 6018, 6027, 6036, 6045, 6055, 6064,
    6073, 6082, 6091, 6100, 6109, 6118, 6126, 6135, 6144, 6153, 6162, 6171, 6179, 6188,
    6197, 6205, 6214, 6223, 6231, 6240, 6248, 6257, 6265, 6274, 6282, 6291, 6299, 6307,
    6316, 6324, 6333, 6341, 6349, 6357, 6366, 6374, 6382, 6390, 6398, 6406, 6415, 6423,
    6431, 6439, 6447, 6455, 6463, 6471, 6479, 6487, 6495, 6502, 6510, 6518, 6526, 6534,
    6542, 6549, 6557, 6565, 6573, 6580, 6588, 6596, 6603, 6611, 6619, 6626, 6634, 6641,
    6649, 6656, 6664, 6671, 6679, 6686, 6694, 6701, 6709, 6716, 6723, 6731, 6738, 6745,
    6753, 6760, 6767, 6775, 6782, 6789, 6796, 6804, 6811, 6818, 6825, 6832, 6839, 6847,
    6854, 6861, 6868, 6875, 6882, 6889, 6896, 6903, 6910, 6917, 6924, 6931, 6938, 6945,
    6952, 6958, 6965, 6972, 6979, 6986, 6993, 7000, 7006, 7013, 7020, 7027, 7033, 7040,
    7047, 7054, 7060, 7067, 7074, 7080, 7087, 7093, 7100, 7107, 7113, 7120, 7126, 7133,
    7140, 7146, 7153, 7159, 7166, 7172, 7179, 7185, 7191, 7198, 7204, 7211, 7217, 7224,
    7230, 7236, 7243, 7249, 7255, 7262, 7268, 7274, 7281, 7287, 7293, 7299, 7306, 7312,
    7318, 7324, 7331, 7337, 7343, 7349, 7355, 7361, 7368, 7374, 7380, 7386, 7392, 7398,
    7404, 7410, 7416, 7422, 7428, 7434, 7441, 7447, 7453, 7459, 7465, 7470, 7476, 7482,
    7488, 7494, 7500, 7506, 7512, 7518, 7524, 7530, 7536, 7541, 7547, 7553, 7559, 7565,
    7571, 7576, 7582, 7588, 7594, 7600, 7605, 7611, 7617, 7623, 7628, 7634, 7640, 7646,
    7651, 7657, 7663, 7668, 7674, 7680, 7685, 7691, 7697, 7702, 7708, 7713, 7719, 7725,
    7730, 7736, 7741, 7747, 7752, 7758, 7763, 7769, 7774, 7780, 7785, 7791, 7796, 7802,
    7807, 7813, 7818, 7824, 7829, 7835, 7840, 7846, 7851, 7856, 7862, 7867, 7872, 7878,
    7883, 7889, 7894, 7899, 7905, 7910, 7915, 7921, 7926, 7931, 7937, 7942, 7947, 7952,
    7958, 7963, 7968, 7973, 7979, 7984, 7989, 7994, 8000, 8005, 8010, 8015, 8020, 8025,
    8031, 8036, 8041, 8046, 8051, 8056, 8062, 8067, 8072, 8077, 8082, 8087, 8092, 8097,
    8102, 8107, 8112, 8118, 8123, 8128, 8133, 8138, 8143, 8148, 8153, 8158, 8163, 8168,
    8173, 8178, 8183, 8188, 8193, 8198, 8203, 8208, 8213, 8217, 8222, 8227, 8232, 8237,
    8242, 8247, 8252, 8257, 8262, 8267, 8271, 8276, 8281, 8286, 8291, 8296, 8301, 8305,
    8310, 8315, 8320, 8325, 8329, 8334, 8339, 8344, 8349, 8353, 8358, 8363, 8368, 8372,
    8377, 8382, 8387, 8391, 8396, 8401, 8406, 8410, 8415, 8420, 8424, 8429, 8434, 8439,
    8443, 8448, 8453, 8457, 8462, 8467, 8471, 8476, 8480, 8485, 8490, 8494, 8499, 8504,
    8508, 8513, 8517, 8522, 8527, 8531, 8536, 8540, 8545, 8549, 8554, 8558, 8563, 8568,
    8572, 8577, 8581, 8586, 8590, 8595, 8599, 8604, 8608, 8613, 8617, 8622, 8626, 8631,
    8635, 8640, 8644, 8649, 8653, 8657, 8662, 8666, 8671, 8675, 8680, 8684, 8688, 8693,
    8697, 8702, 8706, 8710, 8715, 8719, 8724, 8728, 8732, 8737, 8741, 8745, 8750, 8754,
    8759, 8763, 8767, 8772, 8776, 8780, 8785, 8789, 8793, 8797, 8802, 8806, 8810, 8815,
    8819, 8823, 8828, 8832, 8836, 8840, 8845, 8849, 8853, 8857, 8862, 8866, 8870, 8874,
    8879, 8883, 8887, 8891, 8895, 8900, 8904, 8908, 8912, 8916, 8921, 8925, 8929, 8933,
    8937, 8942, 8946, 8950, 8954, 8958, 8962, 8966, 8971, 8975, 8979, 8983, 8987, 8991,
    8995, 9000, 9004, 9008, 9012, 9016, 9020, 9024, 9028, 9032, 9036, 9040, 9045, 9049,
    9053, 9057, 9061, 9065, 9069, 9073, 9077, 9081, 9085, 9089, 9093, 9097, 9101, 9105,
    9109, 9113, 9117, 9121, 9125, 9129, 9133, 9137, 9141, 9145, 9149, 9153, 9157, 9161,
    9165, 9169, 9173, 9177, 9181, 9185, 9189, 9193, 9197, 9201, 9205, 9209, 9213, 9216,
    9220, 9224, 9228, 9232, 9236, 9240, 9244, 9248, 9252, 9256, 9259, 9263, 9267, 9271,
    9275, 9279, 9283, 9287, 9290, 9294, 9298, 9302, 9306, 9310, 9314, 9317, 9321, 9325,
    9329, 9333, 9337, 9340, 9344, 9348, 9352, 9356, 9359, 9363, 9367, 9371, 9375, 9378,
    9382, 9386, 9390, 9394, 9397, 9401, 9405, 9409, 9412, 9416, 9420, 9424, 9427, 9431,
    9435, 9439, 9442, 9446, 9450, 9454, 9457, 9461, 9465, 9468, 9472, 9476, 9480, 9483,
    9487, 9491, 9494, 9498, 9502, 9505, 9509, 9513, 9517, 9520, 9524, 9528, 9531, 9535,
    9539, 9542, 9546, 9550, 9553, 9557, 9561, 9564, 9568, 9571, 9575, 9579, 9582, 9586,
    9590, 9593, 9597, 9600, 9604, 9608, 9611, 9615, 9619, 9622, 9626, 9629, 9633, 9636,
    9640, 9644, 9647, 9651, 9654, 9658, 9662, 9665, 9669, 9672, 9676, 9679, 9683, 9686,
    9690, 9694, 9697, 9701, 9704, 9708, 9711, 9715, 9718, 9722, 9725, 9729, 9732, 9736,
    9739, 9743, 9746, 9750, 9753, 9757, 9761, 9764, 9767, 9771, 9774, 9778, 9781, 9785,
    9788, 9792, 9795, 9799, 9802, 9806, 9809, 9813, 9816, 9820, 9823, 9827, 9830, 9833,
    9837, 9840, 9844, 9847, 9851, 9854, 9857, 9861, 9864, 9868, 9871, 9875, 9878, 9881,
    9885, 9888, 9892, 9895, 9898, 9902, 9905, 9909, 9912, 9915, 9919, 9922, 9926, 9929,
    9932, 9936, 9939, 9943, 9946, 9949, 9953, 9956, 9959, 9963, 9966, 9969, 9973, 9976,
    9979, 9983, 9986, 9989, 9993, 9996, 10000, 10003 >>

\* t^(1/3) for t scaled by 10^5, scaled by 10^4: linear interpolation between
\* the two neighbouring table entries.
CubeRoot(t) ==
    LET k == t \div 100
        lo == CubeRootTable[k + 1]
        hi == CubeRootTable[k + 2]
    IN  lo + ((hi - lo) * (t - k * 100)) \div 100

\* The CIE f function on t (scaled by 10^5), result scaled by 10^4:
\* t^(1/3) if t > 0.008856, else 7.787 t + 16/116.
LabF(t) ==
    IF t > 885
    THEN CubeRoot(t)
    ELSE (7787 * t) \div 10000 + 1379

to_lab(rgb) ==
    LET r == Linear(rgb.r)
        g == Linear(rgb.g)
        b == Linear(rgb.b)
        \* x, y, z over the reference white 95.047 / 100.0 / 108.883, scaled by 10^5
        x == ((4124 * r + 3576 * g + 1805 * b) * 20) \div 19009
        y == (2126 * r + 7152 * g + 722 * b) \div 1000
        z == ((193 * r + 1192 * g + 9505 * b) * 19) \div 20688
    IN  The({ <<TruncDiv(116 * fy - 160000, 10000),
                TruncDiv(500 * (fx - fy), 10000),
                TruncDiv(200 * (fy - fz), 10000)>> :
              fx \in {LabF(x)}, fy \in {LabF(y)}, fz \in {LabF(z)} })

Sq(v) == v * v

\* Faulty variant: the lightness difference is taken unsigned and saturates
\* at 0.
dist_lab_saturating(a, b) ==
    The({ Sq(IF l1[1] > l2[1] THEN l1[1] - l2[1] ELSE 0) + Sq(l1[2] - l2[2]) + Sq(l1[3] - l2[3]) :
          l1 \in {to_lab(a)}, l2 \in {to_lab(b)} })

dist_lab(a, b) ==
    The({ Sq(l1[1] - l2[1]) + Sq(l1[2] - l2[2]) + Sq(l1[3] - l2[3]) :
          l1 \in {to_lab(a)}, l2 \in {to_lab(b)} })

----------------------------------------------------------------------------
\* Palette<N>: `colors` is the array [Option<PaletteEntry>; N], `count` the
\* fill count.

Match(i) == [tag |-> "Match", idx |-> i]
NewEntry(i) == [tag |-> "NewEntry", idx |-> i]
Full == [tag |-> "Full"]

Palette_new == [colors |-> [i \in 0 .. N - 1 |-> None], count |-> 0]

\* The capacity of a palette: N, the length of its colors array.
Capacity(cs) == Cardinality(DOMAIN cs)

\* Faulty variant: `<=` for `<`, so the last of equally near slots wins.
RECURSIVE ScanPalette_last_wins(_, _, _, _, _)
ScanPalette_last_wins(cs, rgb, i, best_idx, min_dist) ==
    IF i >= Capacity(cs) THEN [best_idx |-> best_idx, min_dist |-> min_dist]
    ELSE IF cs[i] = None THEN [best_idx |-> best_idx, min_dist |-> min_dist]
    ELSE The({ IF d <= min_dist
               THEN ScanPalette_last_wins(cs, rgb, i + 1, Some(i), d)
               ELSE ScanPalette_last_wins(cs, rgb, i + 1, best_idx, min_dist) :
               d \in {dist_lab(rgb, PaletteEntry_avg(cs[i][1]).rgb)} })

\* The scan loop of match_color from slot i on: the lowest-index populated
\* slot of strictly smallest dist_lab to rgb, stopping at the first empty slot.
RECURSIVE ScanPalette(_, _, _, _, _)
ScanPalette(cs, rgb, i, best_idx, min_dist) ==
    IF i >= Capacity(cs) THEN [best_idx |-> best_idx, min_dist |-> min_dist]
    ELSE IF cs[i] = None THEN [best_idx |-> best_idx, min_dist |-> min_dist]
    ELSE The({ IF d < min_dist
               THEN ScanPalette(cs, rgb, i + 1, Some(i), d)
               ELSE ScanPalette(cs, rgb, i + 1, best_idx, min_dist) :
               d \in {dist_lab(rgb, PaletteEntry_avg(cs[i][1]).rgb)} })

\* Faulty variant: the new slot is reported one too high.
MatchOrCreate_from_one(cs, cnt, rgb, variance, threshold, scan) ==
    IF scan.best_idx # None /\ scan.min_dist < threshold
    THEN [colors |-> cs, count |-> cnt, ret |-> Match(scan.best_idx[1])]
    ELSE IF cnt < Capacity(cs)
    THEN [colors |-> [cs EXCEPT ![cnt] = Some(PaletteEntry_new(rgb, variance))],
          count |-> cnt + 1,
          ret |-> NewEntry(cnt + 1)]
    ELSE [colors |-> cs, count |-> cnt, ret |-> Full]

\* Faulty variant: a slot at distance 0 does not count as a match.
MatchOrCreate_apart(cs, cnt, rgb, variance, threshold, scan) ==
    IF scan.best_idx # None /\ scan.min_dist > 0 /\ scan.min_dist < threshold
    THEN [colors |-> cs, count |-> cnt, ret |-> Match(scan.best_idx[1])]
    ELSE IF cnt < Capacity(cs)
    THEN [colors |-> [cs EXCEPT ![cnt] = Some(PaletteEntry_new(rgb, variance))],
          count |-> cnt + 1,
          ret |-> NewEntry(cnt)]
    ELSE [colors |-> cs, count |-> cnt, ret |-> Full]

\* The part of match_color after the scan.
MatchOrCreate(cs, cnt, rgb, variance, threshold, scan) ==
    IF scan.best_idx # None /\ scan.min_dist < threshold
    THEN [colors |-> cs, count |-> cnt, ret |-> Match(scan.best_idx[1])]
    ELSE IF cnt < Capacity(cs)
    THEN [colors |-> [cs EXCEPT ![cnt] = Some(PaletteEntry_new(rgb, variance))],
          count |-> cnt + 1,
          ret |-> NewEntry(cnt)]
    ELSE [colors |-> cs, count |-> cnt, ret |-> Full]

\* Faulty variant: a Match also accumulates the sample into the matched slot.
match_color_accumulate(cs, cnt, rgb, variance, threshold) ==
    The({ IF scan.best_idx # None /\ scan.min_dist < threshold
        THEN [colors |-> [cs EXCEPT ![scan.best_idx[1]] =
                             Some(PaletteEntry_add(cs[scan.best_idx[1]][1], rgb, variance))],
              count |-> cnt, ret |-> Match(scan.best_idx[1])]
        ELSE IF cnt < Capacity(cs)
        THEN [colors |-> [cs EXCEPT ![cnt] = Some(PaletteEntry_new(rgb, variance))],
              count |-> cnt + 1,
              ret |-> NewEntry(cnt)]
        ELSE [colors |-> cs, count |-> cnt, ret |-> Full] :
          scan \in {ScanPalette(cs, rgb, 0, None, U32_MAX)} })

\* Faulty variant: a full palette recycles its first slot instead of
\* reporting Full.
match_color_overwrite(cs, cnt, rgb, variance, threshold) ==
    The({ IF scan.best_idx # None /\ scan.min_dist < threshold
        THEN [colors |-> cs, count |-> cnt, ret |-> Match(scan.best_idx[1])]
        ELSE IF cnt < Capacity(cs)
        THEN [colors |-> [cs EXCEPT ![cnt] = Some(PaletteEntry_new(rgb, variance))],
              count |-> cnt + 1,
              ret |-> NewEntry(cnt)]
        ELSE [colors |-> [cs EXCEPT ![0] = Some(PaletteEntry_new(rgb, variance))],
              count |-> cnt,
              ret |-> NewEntry(0)] :
          scan \in {ScanPalette(cs, rgb, 0, None, U32_MAX)} })

\* Faulty variant: the scan adds a variance penalty, |variance - slot
\* variance| / 10, to the colour distance.
RECURSIVE ScanPalette_variance(_, _, _, _, _, _)
ScanPalette_variance(cs, rgb, variance, i, best_idx, min_dist) ==
    IF i >= Capacity(cs) THEN [best_idx |-> best_idx, min_dist |-> min_dist]
    ELSE IF cs[i] = None THEN [best_idx |-> best_idx, min_dist |-> min_dist]
    ELSE The({ IF d < min_dist
               THEN ScanPalette_variance(cs, rgb, variance, i + 1, Some(i), d)
               ELSE ScanPalette_variance(cs, rgb, variance, i + 1, best_idx, min_dist) :
               d \in { dist_lab(rgb, avg.rgb)
                       + (IF variance >= avg.var THEN variance - avg.var
                          ELSE avg.var - variance) \div 10 :
                       avg \in {PaletteEntry_avg(cs[i][1])} } })

match_color_variance(cs, cnt, rgb, variance, threshold) ==
    The({ MatchOrCreate(cs, cnt, rgb, variance, threshold, scan) :
          scan \in {ScanPalette_variance(cs, rgb, variance, 0, None, U32_MAX)} })

\* match_color(&mut self, rgb, _variance, threshold): the palette after the
\* call and the PaletteMatch it returns.
match_color(cs, cnt, rgb, variance, threshold) ==
    The({ MatchOrCreate(cs, cnt, rgb, variance, threshold, scan) :
          scan \in {ScanPalette(cs, rgb, 0, None, U32_MAX)} })

\* Faulty variant: an empty slot in range is created from the sample.
add_sample_insert(cs, index, rgb, variance) ==
    IF index < Capacity(cs)
    THEN IF cs[index] # None
         THEN [cs EXCEPT ![index] = Some(PaletteEntry_add(cs[index][1], rgb, variance))]
         ELSE [cs EXCEPT ![index] = Some(PaletteEntry_new(rgb, variance))]
    ELSE cs

\* add_sample(&mut self, index, rgb, variance): the array after the call.
add_sample(cs, index, rgb, variance) ==
    IF index < Capacity(cs) /\ cs[index] # None
    THEN [cs EXCEPT ![index] = Some(PaletteEntry_add(cs[index][1], rgb, variance))]
    ELSE cs

\* Faulty variant: an empty slot reads as the default colour.
get_or_default(cs, index) ==
    IF index < Capacity(cs)
    THEN IF cs[index] # None THEN Some(PaletteEntry_avg(cs[index][1]).rgb) ELSE Some(Rgb(0, 0, 0))
    ELSE None

\* get(&self, index) -> Option<Rgb>.
get(cs, index) ==
    IF index < Capacity(cs)
    THEN IF cs[index] # None THEN Some(PaletteEntry_avg(cs[index][1]).rgb) ELSE None
    ELSE None

\* get_entry(&self, index) -> Option<PaletteEntry>.
get_entry(cs, index) ==
    IF index < Capacity(cs) THEN cs[index] ELSE None

----------------------------------------------------------------------------
\* BeadSorter: palette, tubes, palette_to_tube.

\* Faulty variant: `<=` for `<`, so the last of equally near tubes wins.
RECURSIVE ScanTubes_last_wins(_, _, _, _, _)
ScanTubes_last_wins(ts, rgb, t_i, best_t, min_d) ==
    IF t_i >= Len(ts) THEN best_t
    ELSE The({ IF d <= min_d
               THEN ScanTubes_last_wins(ts, rgb, t_i + 1, t_i, d)
               ELSE ScanTubes_last_wins(ts, rgb, t_i + 1, best_t, min_d) :
               d \in {dist_lab(rgb, PaletteEntry_avg(ts[t_i + 1]).rgb)} })

\* The roster-full scan of get_tube_for_image over tubes t_i .. len - 1: the
\* lowest tube index of strictly smallest dist_lab between rgb and the tube's
\* running average.
RECURSIVE ScanTubes(_, _, _, _, _)
ScanTubes(ts, rgb, t_i, best_t, min_d) ==
    IF t_i >= Len(ts) THEN best_t
    ELSE The({ IF d < min_d
               THEN ScanTubes(ts, rgb, t_i + 1, t_i, d)
               ELSE ScanTubes(ts, rgb, t_i + 1, best_t, min_d) :
               d \in {dist_lab(rgb, PaletteEntry_avg(ts[t_i + 1]).rgb)} })

\* Faulty variant: the room in the roster is tested before the existing
\* mapping, so a mapped slot gets a fresh tube while there is room.
AssignTube_room_first(ts, p2t, p_idx, rgb, variance) ==
    IF Len(ts) < TubeCap
    THEN [tid |-> Len(ts), tubes |-> Append(ts, PaletteEntry_new(rgb, variance))]
    ELSE IF p2t[p_idx] # UNASSIGNED
    THEN [tid |-> p2t[p_idx], tubes |-> ts]
    ELSE [tid |-> ScanTubes(ts, rgb, 0, 0, U32_MAX), tubes |-> ts]

\* Faulty variant: the roster counts as full one tube early.
AssignTube_one_short(ts, p2t, p_idx, rgb, variance) ==
    IF p2t[p_idx] # UNASSIGNED
    THEN [tid |-> p2t[p_idx], tubes |-> ts]
    ELSE IF Len(ts) < TubeCap - 1
    THEN [tid |-> Len(ts), tubes |-> Append(ts, PaletteEntry_new(rgb, variance))]
    ELSE [tid |-> ScanTubes(ts, rgb, 0, 0, U32_MAX), tubes |-> ts]

\* Faulty variant: the new tube's id is the roster length after the push,
\* without the `- 1`.
AssignTube_len_after_push(ts, p2t, p_idx, rgb, variance) ==
    IF p2t[p_idx] # UNASSIGNED
    THEN [tid |-> p2t[p_idx], tubes |-> ts]
    ELSE IF Len(ts) < TubeCap
    THEN [tid |-> Len(ts) + 1, tubes |-> Append(ts, PaletteEntry_new(rgb, variance))]
    ELSE [tid |-> ScanTubes(ts, rgb, 0, 0, U32_MAX), tubes |-> ts]

\* Faulty variant: a full roster evicts the nearest tube, replacing its entry
\* by one seeded from the sample.
AssignTube_evict(ts, p2t, p_idx, rgb, variance) ==
    IF p2t[p_idx] # UNASSIGNED
    THEN [tid |-> p2t[p_idx], tubes |-> ts]
    ELSE IF Len(ts) < TubeCap
    THEN [tid |-> Len(ts), tubes |-> Append(ts, PaletteEntry_new(rgb, variance))]
    ELSE LET best_t == ScanTubes(ts, rgb, 0, 0, U32_MAX)
         IN  [tid |-> best_t,
              tubes |-> [ts EXCEPT ![best_t + 1] = PaletteEntry_new(rgb, variance)]]

\* Faulty variant: a full roster answers with the sentinel instead of a tube.
AssignTube_sentinel(ts, p2t, p_idx, rgb, variance) ==
    IF p2t[p_idx] # UNASSIGNED
    THEN [tid |-> p2t[p_idx], tubes |-> ts]
    ELSE IF Len(ts) < TubeCap
    THEN [tid |-> Len(ts), tubes |-> Append(ts, PaletteEntry_new(rgb, variance))]
    ELSE [tid |-> UNASSIGNED, tubes |-> ts]

\* The tube bookkeeping of get_tube_for_image once the palette slot p_idx is
\* known: the tube id and the roster (a push when a tube is created).
AssignTube(ts, p2t, p_idx, rgb, variance) ==
    IF p2t[p_idx] # UNASSIGNED
    THEN [tid |-> p2t[p_idx], tubes |-> ts]
    ELSE IF Len(ts) < TubeCap
    THEN [tid |-> Len(ts), tubes |-> Append(ts, PaletteEntry_new(rgb, variance))]
    ELSE [tid |-> ScanTubes(ts, rgb, 0, 0, U32_MAX), tubes |-> ts]

\* Faulty variant: a tube just created from the sample is not given the
\* sample a second time.
RecordTube_seed_once(m, a, cs2, p2t, rgb, variance) ==
    LET p_idx == m.ret.idx
        tid == a.tid
        p2t2 == IF p_idx < N THEN [p2t EXCEPT ![p_idx] = tid % 256] ELSE p2t
        ts2 == IF tid < Len(a.tubes) /\ a.tubes[tid + 1].count > 1
               THEN [a.tubes EXCEPT ![tid + 1] =
                        PaletteEntry_add(a.tubes[tid + 1], rgb, variance)]
               ELSE a.tubes
    IN  [colors |-> cs2, count |-> m.count, tubes |-> ts2,
         palette_to_tube |-> p2t2, ret |-> Some(tid % 256)]

\* The end of get_tube_for_image, from `if p_idx < 128` on, with the palette
\* match m and the tube assignment a: map the slot, accumulate into the tube,
\* return the id.
RecordTube(m, a, cs2, p2t, rgb, variance) ==
    LET p_idx == m.ret.idx
        tid == a.tid
        p2t2 == IF p_idx < N THEN [p2t EXCEPT ![p_idx] = tid % 256] ELSE p2t
        ts2 == IF tid < Len(a.tubes)
               THEN [a.tubes EXCEPT ![tid + 1] =
                        PaletteEntry_add(a.tubes[tid + 1], rgb, variance)]
               ELSE a.tubes
    IN  [colors |-> cs2, count |-> m.count, tubes |-> ts2,
         palette_to_tube |-> p2t2, ret |-> Some(tid % 256)]

\* get_tube_for_image after match_color has returned m: None on Full, else
\* add_sample, the tube assignment and its bookkeeping.
AfterMatch(m, ts, p2t, rgb, variance) ==
    IF m.ret = Full
    THEN [colors |-> m.colors, count |-> m.count, tubes |-> ts,
          palette_to_tube |-> p2t, ret |-> None]
    ELSE The({ RecordTube(m, a, cs2, p2t, rgb, variance) :
               a \in {AssignTube(ts, p2t, m.ret.idx, rgb, variance)},
               cs2 \in {add_sample(m.colors, m.ret.idx, rgb, variance)} })

\* Faulty variant: with the roster full a new palette slot gets no tube and the
\* call gives up with None, after match_color and add_sample have run.
get_tube_for_image_bail(cs, cnt, ts, p2t, analysis) ==
    IF analysis = None
    THEN [colors |-> cs, count |-> cnt, tubes |-> ts, palette_to_tube |-> p2t, ret |-> None]
    ELSE The({ IF /\ m.ret # Full
                  /\ p2t[m.ret.idx] = UNASSIGNED
                  /\ Len(ts) >= TubeCap
               THEN [colors |-> add_sample(m.colors, m.ret.idx, analysis[1].average_color,
                                           analysis[1].variance),
                     count |-> m.count, tubes |-> ts, palette_to_tube |-> p2t, ret |-> None]
               ELSE AfterMatch(m, ts, p2t, analysis[1].average_color, analysis[1].variance) :
               m \in {match_color(cs, cnt, analysis[1].average_color,
                                  analysis[1].variance, THRESHOLD)} })

\* get_tube_for_image(&mut self, buf_bytes, w, h), on the Option<BeadAnalysis>
\* that analyze_image returns for the frame: the state after the call and the
\* Option<u8> returned.
get_tube_for_image(cs, cnt, ts, p2t, analysis) ==
    IF analysis = None
    THEN [colors |-> cs, count |-> cnt, tubes |-> ts, palette_to_tube |-> p2t, ret |-> None]
    ELSE The({ AfterMatch(m, ts, p2t, analysis[1].average_color, analysis[1].variance) :
               m \in {match_color(cs, cnt, analysis[1].average_color,
                                  analysis[1].variance, THRESHOLD)} })

----------------------------------------------------------------------------
\* The Region Localizer: analyze_image_debug on a raw RGB565 frame.  `data` is
\* the byte buffer, a function on 0 .. len - 1.  A result carries a `fault`
\* flag: TRUE if the run would have panicked (a slice index outside the buffer
\* or a division by zero).  The loops are summed by halving the iteration
\* range, which is the same sum: no u32 accumulator can wrap (at most 256
\* pixels of at most 255 * 255 each).

U16 == 65536

\* Faulty variant: the fields are shifted up to 8 bits, not rescaled.
from_rgb565_shifted(p) ==
    Rgb((((p \div 2048) % 32) * 8) % 256,
        (((p \div 32) % 64) * 4) % 256,
        ((p % 32) * 8) % 256)

\* Rgb::from_rgb565: the 5/6/5-bit fields scaled to 8 bits; the products are
\* u16, the results `as u8`.
from_rgb565(p) ==
    Rgb((((((p \div 2048) % 32) * 255) % U16) \div 31) % 256,
        (((((p \div 32) % 64) * 255) % U16) \div 63) % 256,
        ((((p % 32) * 255) % U16) \div 31) % 256)

\* Rgb::dist: squared Euclidean distance in RGB.
dist(a, b) == Sq(a.r - b.r) + Sq(a.g - b.g) + Sq(a.b - b.b)

from_be_bytes(hi, lo) == hi * 256 + lo

Max(a, b) == IF a >= b THEN a ELSE b
Min(a, b) == IF a <= b THEN a ELSE b
saturating_sub(a, b) == IF a >= b THEN a - b ELSE 0

\* AnalysisConfig::default(); filter_percent is the only field the analysis reads.
AnalysisConfig_default == [filter_percent |-> 60]

MIN_BG_X == 10
MAX_BG_X == 15
MIN_BG_Y == 3
MAX_BG_Y == 6
R_INNER == 3
R_OUTER == 7
MIN_CX == 16
MAX_CX == 24
MIN_CY == 16
MAX_CY == 18
\* i64::MIN, the initial best_score; every score a candidate can get lies
\* above -(3 * 255 * 255) / 8, so any value below the cutoff behaves the same.
I64_MIN == -2147483647
SCORE_CUTOFF == -200000
PIXELS_LEN == 256

data_len(data) == Cardinality(DOMAIN data)

\* data[idx] and data[idx + 1] as one big-endian u16; None is the panic of an
\* index outside the buffer.
ReadPixel(data, idx) ==
    IF idx + 1 < data_len(data)
    THEN Some(from_be_bytes(data[idx], data[idx + 1]))
    ELSE None

\* The accumulators of one pixel loop.
ZeroSums ==
    [sum_r |-> 0, sum_g |-> 0, sum_b |-> 0,
     sum_sq_r |-> 0, sum_sq_g |-> 0, sum_sq_b |-> 0, count |-> 0, fault |-> FALSE]

AddSums(s, t) ==
    [sum_r |-> s.sum_r + t.sum_r, sum_g |-> s.sum_g + t.sum_g, sum_b |-> s.sum_b + t.sum_b,
     sum_sq_r |-> s.sum_sq_r + t.sum_sq_r, sum_sq_g |-> s.sum_sq_g + t.sum_sq_g,
     sum_sq_b |-> s.sum_sq_b + t.sum_sq_b, count |-> s.count + t.count,
     fault |-> s.fault \/ t.fault]

\* What one pixel value (an Option<u16> of ReadPixel) adds to the accumulators.
PixelSums(p) ==
    IF p = None
    THEN [ZeroSums EXCEPT !.fault = TRUE]
    ELSE The({ [sum_r |-> rgb.r, sum_g |-> rgb.g, sum_b |-> rgb.b,
                sum_sq_r |-> rgb.r * rgb.r, sum_sq_g |-> rgb.g * rgb.g,
                sum_sq_b |-> rgb.b * rgb.b, count |-> 1, fault |-> FALSE] :
               rgb \in {from_rgb565(p[1])} })

\* One iteration of the background loop at (x, y).
BackgroundPixel(data, width, height, x, y) ==
    IF x >= width \/ y >= height
    THEN ZeroSums
    ELSE IF (y * width + x) * 2 + 1 >= data_len(data)
         THEN ZeroSums
         ELSE PixelSums(ReadPixel(data, (y * width + x) * 2))

\* Iterations lo .. hi of the background loop, row by row over the rectangle.
RECURSIVE BackgroundSums(_, _, _, _, _)
BackgroundSums(data, width, height, lo, hi) ==
    IF lo > hi
    THEN ZeroSums
    ELSE IF lo = hi
    THEN BackgroundPixel(data, width, height,
                         MIN_BG_X + (lo % (MAX_BG_X - MIN_BG_X + 1)),
                         MIN_BG_Y + (lo \div (MAX_BG_X - MIN_BG_X + 1)))
    ELSE The({ AddSums(s, t) :
               s \in {BackgroundSums(data, width, height, lo, (lo + hi) \div 2)},
               t \in {BackgroundSums(data, width, height, (lo + hi) \div 2 + 1, hi)} })

\* bg_color: the mean of the background rectangle, black if no pixel of it
\* lies in the frame.
BackgroundColor(data, width, height) ==
    The({ [fault |-> s.fault,
           rgb |-> IF s.count > 0
                   THEN Rgb((s.sum_r \div s.count) % 256, (s.sum_g \div s.count) % 256,
                            (s.sum_b \div s.count) % 256)
                   ELSE Rgb(0, 0, 0)] :
          s \in {BackgroundSums(data, width, height, 0,
                                (MAX_BG_X - MIN_BG_X + 1) * (MAX_BG_Y - MIN_BG_Y + 1) - 1)} })

\* The bounding box of the ring around (cx, cy), clipped to the frame.
BoundingBox(width, height, cx, cy) ==
    [min_y |-> Max(cy - R_OUTER, 0), max_y |-> Min(cy + R_OUTER, height - 1),
     min_x |-> Max(cx - R_OUTER, 0), max_x |-> Min(cx + R_OUTER, width - 1)]

\* The loops `for y in min_y..=max_y { for x in min_x..=max_x` visit
\* BoxSize(box) positions; the k-th (from 0) is (BoxX(box, k), BoxY(box, k)).
BoxWidth(box) == Max(box.max_x - box.min_x + 1, 0)
BoxSize(box) == BoxWidth(box) * Max(box.max_y - box.min_y + 1, 0)
BoxX(box, k) == box.min_x + (k % BoxWidth(box))
BoxY(box, k) == box.min_y + (k \div BoxWidth(box))

InRing(x, y, cx, cy) ==
    /\ Sq(x - cx) + Sq(y - cy) >= Sq(R_INNER)
    /\ Sq(x - cx) + Sq(y - cy) <= Sq(R_OUTER)

\* One iteration of a ring loop at (x, y): None if the position is skipped
\* (outside the ring, or past the end of the buffer), else the pixel index and
\* the pixel read there.
RingRead(data, width, x, y, cx, cy) ==
    IF ~InRing(x, y, cx, cy)
    THEN None
    ELSE IF (y * width + x) * 2 + 1 >= data_len(data)
         THEN None
         ELSE Some([m_idx |-> y * width + x, p |-> ReadPixel(data, (y * width + x) * 2)])

\* Iterations lo .. hi of the scoring loop of candidate (cx, cy).
RECURSIVE RingSums(_, _, _, _, _, _, _)
RingSums(data, width, box, cx, cy, lo, hi) ==
    IF lo > hi
    THEN ZeroSums
    ELSE IF lo = hi
    THEN The({ IF rd = None THEN ZeroSums ELSE PixelSums(rd[1].p) :
               rd \in {RingRead(data, width, BoxX(box, lo), BoxY(box, lo), cx, cy)} })
    ELSE The({ AddSums(s, t) :
               s \in {RingSums(data, width, box, cx, cy, lo, (lo + hi) \div 2)},
               t \in {RingSums(data, width, box, cx, cy, (lo + hi) \div 2 + 1, hi)} })

\* Mean colour (`as u8`) and total variance of accumulated sums s over n
\* pixels; a division by n = 0 is the fault.
Stats(s, n) ==
    IF n = 0
    THEN [avg |-> Rgb(0, 0, 0), count |-> 0, total_variance |-> 0, fault |-> TRUE]
    ELSE The({ [avg |-> Rgb(m.r % 256, m.g % 256, m.b % 256),
                count |-> n,
                total_variance |-> saturating_sub(s.sum_sq_r \div n, m.r * m.r)
                                   + saturating_sub(s.sum_sq_g \div n, m.g * m.g)
                                   + saturating_sub(s.sum_sq_b \div n, m.b * m.b),
                fault |-> s.fault] :
               m \in {[r |-> s.sum_r \div n, g |-> s.sum_g \div n, b |-> s.sum_b \div n]} })

\* score = contrast - variance_penalty.
Score(st, bg_color) == dist(st.avg, bg_color) - (st.total_variance \div 8)

\* Faulty variant: `>=` for `>`, so the last of equally scored candidates wins.
Candidate_last_wins(s, bg_color, cx, cy, best) ==
    IF s.count = 0
    THEN [best EXCEPT !.fault = best.fault \/ s.fault]
    ELSE The({ IF Score(st, bg_color) >= best.score
               THEN [score |-> Score(st, bg_color), cx |-> cx, cy |-> cy,
                     stats |-> Some([avg |-> st.avg, count |-> st.count,
                                     total_variance |-> st.total_variance]),
                     fault |-> best.fault \/ st.fault]
               ELSE [best EXCEPT !.fault = best.fault \/ st.fault] :
               st \in {Stats(s, s.count)} })

\* Faulty variant: a candidate without valid pixels is scored as well.
Candidate_unguarded(s, bg_color, cx, cy, best) ==
    The({ IF Score(st, bg_color) > best.score
          THEN [score |-> Score(st, bg_color), cx |-> cx, cy |-> cy,
                stats |-> Some([avg |-> st.avg, count |-> st.count,
                                total_variance |-> st.total_variance]),
                fault |-> best.fault \/ st.fault]
          ELSE [best EXCEPT !.fault = best.fault \/ st.fault] :
          st \in {Stats(s, s.count)} })

\* The rest of one iteration of the search loop, after the ring sums s of
\* candidate (cx, cy): skip it if it has no pixel, else score it and keep it
\* if it beats the best so far.
Candidate(s, bg_color, cx, cy, best) ==
    IF s.count = 0
    THEN [best EXCEPT !.fault = best.fault \/ s.fault]
    ELSE The({ IF Score(st, bg_color) > best.score
               THEN [score |-> Score(st, bg_color), cx |-> cx, cy |-> cy,
                     stats |-> Some([avg |-> st.avg, count |-> st.count,
                                     total_variance |-> st.total_variance]),
                     fault |-> best.fault \/ st.fault]
               ELSE [best EXCEPT !.fault = best.fault \/ st.fault] :
               st \in {Stats(s, s.count)} })

\* The ring sums of candidate (cx, cy) over its whole bounding box.
CandidateSums(data, width, height, cx, cy) ==
    The({ RingSums(data, width, box, cx, cy, 0, BoxSize(box) - 1) :
          box \in {BoundingBox(width, height, cx, cy)} })

\* The k-th candidate centre (from 0) of `for cy in 16..=18 { for cx in 16..=24`.
CenterX(k) == MIN_CX + (k % (MAX_CX - MIN_CX + 1))
CenterY(k) == MIN_CY + (k \div (MAX_CX - MIN_CX + 1))

\* Candidates k, k + 1, ... of the search area in scan order, from the best
\* so far.
RECURSIVE ScanSearchArea(_, _, _, _, _, _)
ScanSearchArea(data, width, height, bg_color, k, best) ==
    IF k >= (MAX_CX - MIN_CX + 1) * (MAX_CY - MIN_CY + 1)
    THEN best
    ELSE The({ ScanSearchArea(data, width, height, bg_color, k + 1, b) :
               b \in { Candidate(s, bg_color, CenterX(k), CenterY(k), best) :
                       s \in {CandidateSums(data, width, height, CenterX(k), CenterY(k))} } })

\* Iterations lo .. hi of the collection loop around the best centre: the
\* (rgb565, dist_sq_from_mean, mask_index) triples in scan order, dist still 0.
RECURSIVE CollectPixels(_, _, _, _, _, _, _)
CollectPixels(data, width, box, cx, cy, lo, hi) ==
    IF lo > hi
    THEN <<>>
    ELSE IF lo = hi
    THEN The({ IF rd = None
               THEN <<>>
               ELSE <<[p |-> rd[1].p, dist |-> 0, m_idx |-> rd[1].m_idx]>> :
               rd \in {RingRead(data, width, BoxX(box, lo), BoxY(box, lo), cx, cy)} })
    ELSE CollectPixels(data, width, box, cx, cy, lo, (lo + hi) \div 2)
         \o CollectPixels(data, width, box, cx, cy, (lo + hi) \div 2 + 1, hi)

\* `if p_count < 256`: the array takes the first 256 pixels the loop meets.
TakePixels(all) == SubSeq(all, 1, Min(Len(all), PIXELS_LEN))

\* The initial sums over pixels lo .. hi of the array.
RECURSIVE PixelsSums(_, _, _)
PixelsSums(pixels, lo, hi) ==
    IF lo > hi
    THEN ZeroSums
    ELSE IF lo = hi
    THEN PixelSums(pixels[lo].p)
    ELSE The({ AddSums(s, t) :
               s \in {PixelsSums(pixels, lo, (lo + hi) \div 2)},
               t \in {PixelsSums(pixels, (lo + hi) \div 2 + 1, hi)} })

\* Step 2: every pixel's squared distance from the initial mean.
RECURSIVE WithDistances(_, _, _, _)
WithDistances(pixels, mean, lo, hi) ==
    IF lo > hi
    THEN <<>>
    ELSE IF lo = hi
    THEN <<[pixels[lo] EXCEPT !.dist = IF pixels[lo].p = None
                                        THEN 0
                                        ELSE dist(from_rgb565(pixels[lo].p[1]), mean)]>>
    ELSE WithDistances(pixels, mean, lo, (lo + hi) \div 2)
         \o WithDistances(pixels, mean, (lo + hi) \div 2 + 1, hi)

\* Faulty variant: the sort is left out, the array stays in scan order.
SortedPosition_unsorted(pixels, j) == j

\* Step 3, the insertion sort by distance.  It swaps neighbours only on a
\* strict `<`, so it is stable: the pixel at j ends behind every pixel of
\* smaller distance and every earlier pixel of equal distance.
SortedPosition(pixels, j) ==
    1 + Cardinality({k \in 1 .. Len(pixels) :
                       \/ pixels[k].dist < pixels[j].dist
                       \/ pixels[k].dist = pixels[j].dist /\ k < j})

\* Step 4: the sums over `pixels.iter().take(keep_count)`, for pixels lo .. hi
\* of the unsorted array.  Past the p_count collected pixels the array holds
\* its initial (0, 0, 0) triples, which add nothing to any sum.
RECURSIVE KeptSums(_, _, _, _)
KeptSums(pixels, keep_count, lo, hi) ==
    IF lo > hi
    THEN ZeroSums
    ELSE IF lo = hi
    THEN (IF SortedPosition(pixels, lo) <= keep_count
          THEN PixelSums(pixels[lo].p)
          ELSE ZeroSums)
    ELSE The({ AddSums(s, t) :
               s \in {KeptSums(pixels, keep_count, lo, (lo + hi) \div 2)},
               t \in {KeptSums(pixels, keep_count, (lo + hi) \div 2 + 1, hi)} })

\* keep_count = (p_count * filter_percent / 100).max(1).
KeepCount(p_count, config) == Max((p_count * config.filter_percent) \div 100, 1)

\* The mask indices `pixels.iter().take(keep_count)` meets: those of the
\* first keep_count pixels in sorted order and, past the p_count collected
\* pixels, the 0 of the array's initial triples.
KeptIndices(pixels, keep_count) ==
    {pixels[j].m_idx : j \in {k \in 1 .. Len(pixels) : SortedPosition(pixels, k) <= keep_count}}
    \cup (IF keep_count > Len(pixels) THEN {0} ELSE {})

\* Steps 2 to 4 of the refinement, for an array of p_count > 0 pixels: the
\* refined statistics and the mask indices of the pixels kept.
RefinePixels(pixels, config) ==
    The({ The({ The({ [stats |-> Some([avg |-> st.avg, count |-> keep_count,
                                       total_variance |-> st.total_variance]),
                       fault |-> m.fault \/ st.fault,
                       kept |-> KeptIndices(measured, keep_count)] :
                      st \in {Stats(KeptSums(measured, keep_count, 1, Len(measured)),
                                    keep_count)} }) :
                measured \in {WithDistances(pixels, m.avg, 1, Len(pixels))},
                keep_count \in {KeepCount(Len(pixels), config)} }) :
          m \in {Stats(PixelsSums(pixels, 1, Len(pixels)), Len(pixels))} })

\* The refinement: collect the pixels of the ring around the best centre,
\* filter them, and replace the statistics (by None if the ring is empty).
Refine(data, width, height, cx, cy, config) ==
    The({ IF Len(pixels) > 0
          THEN RefinePixels(pixels, config)
          ELSE [stats |-> None, fault |-> FALSE, kept |-> {}] :
          pixels \in { TakePixels(CollectPixels(data, width, box, cx, cy, 0, BoxSize(box) - 1)) :
                       box \in {BoundingBox(width, height, cx, cy)} } })

BeadAnalysis(st) ==
    [average_color |-> st.avg, pixel_count |-> st.count, variance |-> st.total_variance]

\* The background estimate and the search, for a frame that passed the
\* geometry check: the score, centre and coarse statistics the search ends
\* with.
Search(data, width, height) ==
    The({ ScanSearchArea(data, width, height, bg.rgb, 0,
                         [score |-> I64_MIN, cx |-> (MIN_CX + MAX_CX) \div 2,
                          cy |-> (MIN_CY + MAX_CY) \div 2, stats |-> None,
                          fault |-> bg.fault]) :
          bg \in {BackgroundColor(data, width, height)} })

\* The mask after the refinement: 0 from the fill, 4 at the chosen centre, 1
\* at the kept pixels whose index lies in the mask.
WriteMask(mask, centre, kept) ==
    IF mask = None
    THEN None
    ELSE Some([k \in DOMAIN mask[1] |-> IF k \in kept THEN 1 ELSE IF k = centre THEN 4 ELSE 0])

\* m.fill(0).
FillMask(mask) == IF mask = None THEN None ELSE Some([k \in DOMAIN mask[1] |-> 0])

\* Faulty variant: the cutoff is 0, so a best candidate of negative score is
\* rejected.
AfterSearch_reject_negative(data, width, height, mask, config, best) ==
    IF best.score < 0 \/ best.stats = None
    THEN [ret |-> None, fault |-> best.fault, best |-> Some(best), mask |-> FillMask(mask)]
    ELSE IF mask # None /\ best.cy * width + best.cx >= Cardinality(DOMAIN mask[1])
    THEN [ret |-> None, fault |-> TRUE, best |-> Some(best), mask |-> FillMask(mask)]
    ELSE The({ [ret |-> IF r.stats = None THEN None ELSE Some(BeadAnalysis(r.stats[1])),
                fault |-> best.fault \/ r.fault, best |-> Some(best),
                mask |-> WriteMask(mask, best.cy * width + best.cx, r.kept)] :
               r \in {Refine(data, width, height, best.cx, best.cy, config)} })

\* What follows the search: the threshold check and the refinement.  `ret` is
\* the function's Option<BeadAnalysis>, `best` the outcome of the search,
\* `mask` the caller's mask (an Option) after the call.  The write of the
\* centre into a mask that ends before it is a fault.
AfterSearch(data, width, height, mask, config, best) ==
    IF best.score < SCORE_CUTOFF \/ best.stats = None
    THEN [ret |-> None, fault |-> best.fault, best |-> Some(best), mask |-> FillMask(mask)]
    ELSE IF mask # None /\ best.cy * width + best.cx >= Cardinality(DOMAIN mask[1])
    THEN [ret |-> None, fault |-> TRUE, best |-> Some(best), mask |-> FillMask(mask)]
    ELSE The({ [ret |-> IF r.stats = None THEN None ELSE Some(BeadAnalysis(r.stats[1])),
                fault |-> best.fault \/ r.fault, best |-> Some(best),
                mask |-> WriteMask(mask, best.cy * width + best.cx, r.kept)] :
               r \in {Refine(data, width, height, best.cx, best.cy, config)} })

\* analyze_image_debug past the geometry check, without a mask.
Localize(data, width, height, config) ==
    The({ AfterSearch(data, width, height, None, config, best) :
          best \in {Search(data, width, height)} })

\* Faulty variant: the length check counts pixels instead of bytes.
analyze_image_debug_pixels(data, width, height, config) ==
    IF width = 0 \/ height = 0 \/ data_len(data) < width * height
    THEN [ret |-> None, fault |-> FALSE, best |-> None]
    ELSE Localize(data, width, height, config)

\* analyze_image_debug called without a mask.
analyze_image_debug(data, width, height, config) ==
    IF width = 0 \/ height = 0 \/ data_len(data) < width * height * 2
    THEN [ret |-> None, fault |-> FALSE, best |-> None]
    ELSE Localize(data, width, height, config)

\* analyze_image_debug(data, width, height, mask, config) with the outcome of
\* its search given as `search` (an Option, None for a frame that fails the
\* geometry check): the search reads neither the mask nor the config.
analyze_image_debug_searched(data, width, height, mask, config, search) ==
    IF width = 0 \/ height = 0 \/ data_len(data) < width * height * 2
    THEN [ret |-> None, fault |-> FALSE, best |-> None, mask |-> mask]
    ELSE AfterSearch(data, width, height, mask, config, search[1])

analyze_image(data, width, height) ==
    analyze_image_debug(data, width, height, AnalysisConfig_default)

----------------------------------------------------------------------------
\* The state machine.

VARIABLES colors, count, tubes, palette_to_tube, last, calls

vars == <<colors, count, tubes, palette_to_tube, last, calls>>

GREY_A == Rgb(72, 72, 72)
GREY_A2 == Rgb(78, 78, 78)
GREY_B == Rgb(172, 172, 172)
GREY_C == Rgb(120, 120, 120)
RED == Rgb(255, 0, 0)

\* The (average_color, variance) pairs a frame analysis may deliver: two greys
\* within the threshold of each other, three colours far from them and from
\* each other (GREY_C is equidistant from GREY_A and GREY_B).
Samples ==
    { [average_color |-> GREY_A, variance |-> 0],
      [average_color |-> GREY_A2, variance |-> 40],
      [average_color |-> GREY_B, variance |-> 0],
      [average_color |-> GREY_C, variance |-> 10],
      [average_color |-> RED, variance |-> 7] }

\* analyze_image's possible results: no bead, or a BeadAnalysis.
Analyses == {None} \cup {Some(s) : s \in Samples}

\* What a direct user of the palette passes: samples to match, thresholds
\* (0 matches nothing), samples to accumulate, and slot indices, N out of range.
MatchSamples ==
    { [average_color |-> GREY_A, variance |-> 0],
      [average_color |-> GREY_A2, variance |-> 40],
      [average_color |-> RED, variance |-> 7] }
Thresholds == {0, THRESHOLD, 500}
AddSamples ==
    { [average_color |-> GREY_A2, variance |-> 40],
      [average_color |-> RED, variance |-> 7] }
Indices == 0 .. N

Init ==
    /\ colors = Palette_new.colors
    /\ count = Palette_new.count
    /\ tubes = <<>>
    /\ palette_to_tube = [i \in 0 .. N - 1 |-> UNASSIGNED]
    /\ last = [op |-> "new"]
    /\ calls = 0

\* One sort cycle: BeadSorter::get_tube_for_image on a frame whose analysis is
\* `analysis`.
GetTubeForImage(analysis) ==
    /\ calls < MaxCalls
    /\ \E res \in {get_tube_for_image(colors, count, tubes, palette_to_tube, analysis)} :
           /\ colors' = res.colors
           /\ count' = res.count
           /\ tubes' = res.tubes
           /\ palette_to_tube' = res.palette_to_tube
           /\ last' = [op |-> "get_tube_for_image", analysis |-> analysis, ret |-> res.ret]
    /\ calls' = calls + 1

Next == \E analysis \in Analyses : GetTubeForImage(analysis)

Spec == Init /\ [][Next]_vars

\* The palette on its own, driven as a library: any interleaving of
\* match_color and add_sample.
MatchColor(rgb, variance, threshold) ==
    /\ calls < MaxPaletteCalls
    /\ \E m \in {match_color(colors, count, rgb, variance, threshold)} :
           /\ colors' = m.colors
           /\ count' = m.count
           /\ last' = [op |-> "match_color", rgb |-> rgb, variance |-> variance,
                       threshold |-> threshold, ret |-> m.ret]
    /\ calls' = calls + 1
    /\ UNCHANGED <<tubes, palette_to_tube>>

AddSample(index, rgb, variance) ==
    /\ calls < MaxPaletteCalls
    /\ colors' = add_sample(colors, index, rgb, variance)
    /\ last' = [op |-> "add_sample", index |-> index, rgb |-> rgb, variance |-> variance]
    /\ calls' = calls + 1
    /\ UNCHANGED <<count, tubes, palette_to_tube>>

NextPalette ==
    \/ \E s \in MatchSamples, t \in Thresholds : MatchColor(s.average_color, s.variance, t)
    \/ \E i \in Indices, s \in AddSamples : AddSample(i, s.average_color, s.variance)

SpecPalette == Init /\ [][NextPalette]_vars

\* The palette driven as a library at the threshold the sorter uses, with its
\* two read accessors; the indices reach past the end of the array.
AccessIndices == 0 .. N + 1

Get(index) ==
    /\ calls < MaxPaletteCalls
    /\ last' = [op |-> "get", index |-> index, ret |-> get(colors, index)]
    /\ calls' = calls + 1
    /\ UNCHANGED <<colors, count, tubes, palette_to_tube>>

GetEntry(index) ==
    /\ calls < MaxPaletteCalls
    /\ last' = [op |-> "get_entry", index |-> index, ret |-> get_entry(colors, index)]
    /\ calls' = calls + 1
    /\ UNCHANGED <<colors, count, tubes, palette_to_tube>>

NextAccess ==
    \/ \E s \in MatchSamples : MatchColor(s.average_color, s.variance, THRESHOLD)
    \/ \E i \in Indices, s \in AddSamples : AddSample(i, s.average_color, s.variance)
    \/ \E i \in AccessIndices : Get(i)
    \/ \E i \in AccessIndices : GetEntry(i)

SpecAccess == Init /\ [][NextAccess]_vars

\* dist_lab on its own, over the colours whose channels are dark, middle or
\* full.
Channels == {0, 120, 255}
Colours == { Rgb(r, g, b) : r \in Channels, g \in Channels, b \in Channels }

DistLab(a, b) ==
    /\ last' = [op |-> "dist_lab", a |-> a, b |-> b, ret |-> dist_lab(a, b)]
    /\ UNCHANGED <<colors, count, tubes, palette_to_tube, calls>>

NextDistLab == \E a \in Colours, b \in Colours : DistLab(a, b)

SpecDistLab == Init /\ [][NextDistLab]_vars

\* The palette driven with one colour under two variances, at the threshold
\* the sorter uses.
VarianceSamples ==
    { [average_color |-> GREY_A, variance |-> 0],
      [average_color |-> GREY_A, variance |-> 200],
      [average_color |-> RED, variance |-> 7] }

NextVariance ==
    \/ \E s \in VarianceSamples : MatchColor(s.average_color, s.variance, THRESHOLD)
    \/ \E i \in Indices, s \in VarianceSamples : AddSample(i, s.average_color, s.variance)

SpecVariance == Init /\ [][NextVariance]_vars

\* Palette<n>::new() for every capacity n from 0 to N, driven by match_color.
InitCapacity ==
    \E n \in 0 .. N :
        /\ colors = [i \in 0 .. n - 1 |-> None]
        /\ count = 0
        /\ tubes = <<>>
        /\ palette_to_tube = [i \in 0 .. N - 1 |-> UNASSIGNED]
        /\ last = [op |-> "new"]
        /\ calls = 0

NextCapacity ==
    \E s \in MatchSamples, t \in Thresholds : MatchColor(s.average_color, s.variance, t)

SpecCapacity == InitCapacity /\ [][NextCapacity]_vars

----------------------------------------------------------------------------
\* Frames, and the sorter driven by frames as the firmware drives it.  A frame
\* is described by what its buffer holds: the image, the width and height
\* passed with it, and the buffer's length in bytes.

GREY565 == 33808
BLACK565 == 0
RED565 == 63488
BLUE565 == 31

\* Every pixel the same RGB565 value.
Uniform(p) == [kind |-> "uniform", p |-> p, bg |-> p]
\* A disc of colour p and radius R_OUTER centred in the search area, on bg.
Bead(p, bg) == [kind |-> "bead", p |-> p, bg |-> bg]
\* A different value at every pixel of a neighbourhood.
Speckle == [kind |-> "speckle", p |-> 0, bg |-> 0]
\* The rows from MAX_CY - 1 down of colour p, the rows above of colour bg.
Band(p, bg) == [kind |-> "band", p |-> p, bg |-> bg]

Frame(image, width, height, len) ==
    [image |-> image, width |-> width, height |-> height, len |-> len]

\* The RGB565 value of the image at (x, y).
PixelAt(image, x, y) ==
    IF image.kind = "uniform"
    THEN image.p
    ELSE IF image.kind = "bead"
    THEN (IF Sq(x - (MIN_CX + MAX_CX) \div 2) + Sq(y - (MIN_CY + MAX_CY) \div 2) <= Sq(R_OUTER)
          THEN image.p
          ELSE image.bg)
    ELSE IF image.kind = "band"
    THEN (IF y >= MAX_CY - 1 THEN image.p ELSE image.bg)
    ELSE ((x * 31 + y * 17) * 2659) % 65536

FILLER == 170

\* Byte k of the frame's buffer: the pixels row by row, two bytes each, high
\* byte first, and filler bytes past the last pixel.
Byte(frame, k) ==
    IF frame.width = 0 \/ k \div 2 >= frame.width * frame.height
    THEN FILLER
    ELSE The({ IF k % 2 = 0 THEN p \div 256 ELSE p % 256 :
               p \in {PixelAt(frame.image, (k \div 2) % frame.width,
                              (k \div 2) \div frame.width)} })

Data(frame) == [k \in 0 .. frame.len - 1 |-> Byte(frame, k)]

\* The deployment frame, 40x30, with two images;
FullFrames ==
    { Frame(image, 40, 30, 2400) : image \in {Uniform(GREY565), Bead(RED565, GREY565)} }

\* and, for two images, the geometries of interest: a zero width, a zero
\* height, a buffer one byte short, a frame that ends before the search area
\* begins, one that ends inside it, one that cuts every candidate's ring
\* (the first of these also in two more colours, one of them in a buffer longer
\* than the frame), one so narrow that only the first column of
\* candidates has a ring pixel, and one wide enough for every candidate's ring
\* that ends inside the search area.
OddFrames ==
    { Frame(image, g[1], g[2], g[3]) :
      image \in {Uniform(GREY565), Speckle},
      g \in {<<0, 30, 0>>, <<40, 0, 0>>, <<40, 30, 2399>>, <<8, 8, 128>>, <<20, 12, 480>>} }
    \cup {Frame(Uniform(BLACK565), 20, 12, 482), Frame(Uniform(BLUE565), 20, 12, 480),
          Frame(Speckle, 24, 19, 912), Frame(Speckle, 10, 19, 380),
          Frame(Band(RED565, GREY565), 32, 19, 1216)}

Frames == FullFrames \cup OddFrames

\* analyze_image on every frame.
AnalysisOf == [frame \in Frames |-> analyze_image(Data(frame), frame.width, frame.height)]

\* One sort cycle on a frame: get_tube_for_image(buf_bytes, w, h).
Classify(frame) ==
    /\ calls < MaxFrameCalls
    /\ \E a \in {AnalysisOf[frame]} :
         \E res \in {get_tube_for_image(colors, count, tubes, palette_to_tube, a.ret)} :
           /\ colors' = res.colors
           /\ count' = res.count
           /\ tubes' = res.tubes
           /\ palette_to_tube' = res.palette_to_tube
           /\ last' = [op |-> "classify", frame |-> frame, analysis |-> a.ret,
                       fault |-> a.fault, best |-> a.best, ret |-> res.ret]
    /\ calls' = calls + 1

NextFrames == \E frame \in Frames : Classify(frame)

SpecFrames == Init /\ [][NextFrames]_vars

\* from_rgb565 on its own, over every u16.
InitRgb565 ==
    /\ \E p \in 0 .. U16 - 1 : last = [op |-> "input", p |-> p]
    /\ colors = Palette_new.colors
    /\ count = Palette_new.count
    /\ tubes = <<>>
    /\ palette_to_tube = [i \in 0 .. N - 1 |-> UNASSIGNED]
    /\ calls = 0

FromRgb565 ==
    /\ last.op = "input"
    /\ last' = [op |-> "from_rgb565", p |-> last.p, ret |-> from_rgb565(last.p)]
    /\ UNCHANGED <<colors, count, tubes, palette_to_tube, calls>>

NextRgb565 == FromRgb565

SpecRgb565 == InitRgb565 /\ [][NextRgb565]_vars

\* analyze_image_debug on its own, as the tools call it: a frame, a
\* filter_percent over the range of its u8 (the default, the ends, and the
\* values around 100), and with or without a mask of width * height bytes
\* that holds stale data.
Percents == {0, 1, 50, 60, 100, 101, 255}
STALE == 9
NewMask(len) == [k \in 0 .. len - 1 |-> STALE]

InitDebug ==
    /\ \E frame \in Frames, percent \in Percents, masked \in BOOLEAN :
           last = [op |-> "input", frame |-> frame,
                   config |-> [filter_percent |-> percent], masked |-> masked]
    /\ colors = Palette_new.colors
    /\ count = Palette_new.count
    /\ tubes = <<>>
    /\ palette_to_tube = [i \in 0 .. N - 1 |-> UNASSIGNED]
    /\ calls = 0

\* The call on the input drawn; the outcome of the search is that of
\* analyze_image on the frame.
AnalyzeImageDebug ==
    /\ last.op = "input"
    /\ \E res \in {analyze_image_debug_searched(
                       Data(last.frame), last.frame.width, last.frame.height,
                       IF last.masked
                       THEN Some(NewMask(last.frame.width * last.frame.height))
                       ELSE None,
                       last.config, AnalysisOf[last.frame].best)} :
           last' = [op |-> "analyze_image_debug", frame |-> last.frame,
                    config |-> last.config, masked |-> last.masked, ret |-> res.ret,
                    fault |-> res.fault, best |-> res.best, mask |-> res.mask]
    /\ UNCHANGED <<colors, count, tubes, palette_to_tube, calls>>

NextDebug == AnalyzeImageDebug

SpecDebug == InitDebug /\ [][NextDebug]_vars

----------------------------------------------------------------------------
\* Vocabulary of the properties below, stated on the data and not through
\* the operations they are about.

Slots == 0 .. N - 1

Populated(cs) == {i \in Slots : cs[i] # None}

\* An entry holding exactly one sample s.
Seeded(s) ==
    [sum_r |-> s.average_color.r, sum_g |-> s.average_color.g,
     sum_b |-> s.average_color.b, sum_var |-> s.variance, count |-> 1]

\* Entry e with one more sample s accumulated.
Accumulated(e, s) ==
    [sum_r |-> e.sum_r + s.average_color.r, sum_g |-> e.sum_g + s.average_color.g,
     sum_b |-> e.sum_b + s.average_color.b, sum_var |-> e.sum_var + s.variance,
     count |-> e.count + 1]

\* Entry f is entry e after zero or more further samples.
GrownFrom(e, f) ==
    /\ f.count >= e.count
    /\ f.sum_r >= e.sum_r
    /\ f.sum_g >= e.sum_g
    /\ f.sum_b >= e.sum_b
    /\ f.sum_var >= e.sum_var
    /\ (f.count = e.count => f = e)

\* dist_lab between a colour and an entry's running average.
DistTo(rgb, e) == dist_lab(rgb, PaletteEntry_avg(e).rgb)

\* Some populated slot of cs lies within the threshold of rgb.
Within(cs, rgb, threshold) == \E i \in Populated(cs) : DistTo(rgb, cs[i][1]) < threshold

\* The sample of the last palette call, as an (average_color, variance) pair.
Sample(l) == [average_color |-> l.rgb, variance |-> l.variance]

----------------------------------------------------------------------------
\* C1: under any interleaving of match_color and add_sample the palette keeps
\* its shape (slots below the fill count populated, slots from it on empty,
\* count <= N), the fill count never decreases, and a slot only ever becomes
\* populated at the index the fill count had before the call.
C1_PaletteShape ==
    /\ [](count <= N /\ \A i \in Slots : (i < count) <=> (colors[i] # None))
    /\ [][/\ count' >= count
          /\ \A i \in Slots : (colors[i] = None /\ colors'[i] # None) => i = count]_vars

\* Both methods have run and the palette is part filled.
C1_Witness ==
    /\ last.op = "add_sample"
    /\ count = 2
    /\ colors[1] # None
    /\ colors[1][1].count > 1

\* C2: every get_tube_for_image call returns None or Some(t) with t a tube id
\* below the roster capacity that names an existing roster entry.
C2_TubeIdInRange ==
    last.op = "get_tube_for_image" =>
        \/ last.ret = None
        \/ /\ Len(last.ret) = 1
           /\ last.ret[1] \in 0 .. TubeCap - 1
           /\ last.ret[1] < Len(tubes)

\* A call answered with the highest tube id out of a full roster, for a
\* palette slot beyond the roster's capacity.
C2_Witness ==
    /\ last.op = "get_tube_for_image"
    /\ last.ret = Some(TubeCap - 1)
    /\ Len(tubes) = TubeCap
    /\ count > TubeCap
    /\ palette_to_tube[count - 1] = TubeCap - 1

\* C3: the roster never holds more than its capacity, never shrinks, and an
\* entry once appended is never removed or replaced: it stays as it is or
\* grows by accumulated samples.
C3_RosterGrowOnly ==
    /\ [](Len(tubes) <= TubeCap)
    /\ [][/\ Len(tubes') >= Len(tubes)
          /\ \A t \in 1 .. Len(tubes) : GrownFrom(tubes[t], tubes'[t])]_vars

\* A full roster serving more palette slots than it has tubes, one of its
\* tubes having taken samples after its creation.
C3_Witness ==
    /\ Len(tubes) = TubeCap
    /\ count > TubeCap
    /\ last.op = "get_tube_for_image"
    /\ last.ret # None
    /\ tubes[1].count > 3

\* C4: after every call a palette slot is populated exactly if palette_to_tube
\* holds a tube id for it (not the 0xFF sentinel), that id naming a roster
\* entry; an unpopulated slot still holds the sentinel.
C4_PopulatedIffMapped ==
    \A i \in Slots :
        IF colors[i] # None
        THEN palette_to_tube[i] # UNASSIGNED /\ palette_to_tube[i] < Len(tubes)
        ELSE palette_to_tube[i] = UNASSIGNED

\* The roster is full and the slot created after that shares a tube with an
\* earlier slot.
C4_Witness ==
    /\ last.op = "get_tube_for_image"
    /\ count = TubeCap + 1
    /\ colors[TubeCap] # None
    /\ \E i \in 0 .. TubeCap - 1 : palette_to_tube[i] = palette_to_tube[TubeCap]

\* C5: a call is atomic.  Returning None it leaves palette, roster and map as
\* they were; returning Some(t) it has applied all three updates: one palette
\* slot p holds the sample (accumulated once more into an existing slot, seeded
\* and accumulated into a new one), p is mapped to t, and tube t holds the
\* sample likewise; nothing else changed.
C5_Atomic ==
    [][last'.op = "get_tube_for_image" =>
        IF last'.ret = None
        THEN UNCHANGED <<colors, count, tubes, palette_to_tube>>
        ELSE LET s == last'.analysis[1]
                 t == last'.ret[1]
             IN  /\ \E p \in Slots :
                       /\ palette_to_tube'[p] = t
                       /\ colors'[p] = Some(Accumulated(IF colors[p] = None THEN Seeded(s)
                                                        ELSE colors[p][1], s))
                       /\ \A q \in Slots \ {p} :
                              colors'[q] = colors[q] /\ palette_to_tube'[q] = palette_to_tube[q]
                 /\ t < Len(tubes')
                 /\ tubes'[t + 1] = Accumulated(IF t < Len(tubes) THEN tubes[t + 1]
                                                ELSE Seeded(s), s)
                 /\ \A u \in 1 .. Len(tubes') : u # t + 1 => u <= Len(tubes) /\ tubes'[u] = tubes[u]
    ]_vars

\* A bead was seen but the full palette had no slot for it: None.
C5_Witness ==
    /\ last.op = "get_tube_for_image"
    /\ last.analysis # None
    /\ last.ret = None
    /\ count = N

\* C6: match_color changes the palette only when it returns NewEntry; after
\* Match or Full every slot and the fill count are as before.
C6_MatchReadOnly ==
    [][(last'.op = "match_color" /\ last'.ret.tag \in {"Match", "Full"}) =>
           UNCHANGED <<colors, count>>]_vars

\* A Match to a slot other than the first.
C6_Witness ==
    /\ last.op = "match_color"
    /\ last.ret.tag = "Match"
    /\ last.ret.idx > 0

\* C7: when no populated slot is within the threshold and the palette is not
\* full, match_color returns NewEntry(c) for c the fill count before the call,
\* slot c holds exactly the one sample, the fill count grew by one and every
\* other slot is as before.
C7_NewEntryAtCount ==
    [][(/\ last'.op = "match_color"
        /\ ~Within(colors, last'.rgb, last'.threshold)
        /\ count < N) =>
           /\ last'.ret = NewEntry(count)
           /\ colors' = [colors EXCEPT ![count] = Some(Seeded(Sample(last')))]
           /\ count' = count + 1]_vars

\* The third unmatched colour in a row, at the production threshold.
C7_Witness ==
    /\ last.op = "match_color"
    /\ last.threshold = THRESHOLD
    /\ last.ret = NewEntry(2)
    /\ colors[2] = Some(Seeded(Sample(last)))

\* C8: on a palette holding N entries match_color never returns NewEntry: with
\* no slot within the threshold it returns Full and the palette is as before,
\* with a slot within the threshold it returns Match.
C8_FullPalette ==
    [][(last'.op = "match_color" /\ count = N) =>
           IF Within(colors, last'.rgb, last'.threshold)
           THEN last'.ret.tag = "Match"
           ELSE last'.ret = Full /\ UNCHANGED <<colors, count>>]_vars

\* Full, returned at a threshold under which some samples do match.
C8_Witness ==
    /\ last.op = "match_color"
    /\ last.ret = Full
    /\ last.threshold > 0
    /\ count = N

\* C9: a call that maps a so far unmapped palette slot p while the roster is
\* full maps it to the tube whose running average (before the call) is nearest
\* in dist_lab to the sample, the lowest index among equally near tubes; the
\* roster keeps its length and that tube accumulates the sample.
C9_NearestTube ==
    [][(/\ last'.op = "get_tube_for_image"
        /\ last'.ret # None
        /\ Len(tubes) = TubeCap
        /\ \E p \in Slots : palette_to_tube[p] = UNASSIGNED /\ palette_to_tube'[p] # UNASSIGNED) =>
           LET s == last'.analysis[1]
               t == last'.ret[1]
               d(u) == DistTo(s.average_color, tubes[u + 1])
           IN  /\ t \in 0 .. Len(tubes) - 1
               /\ \A u \in 0 .. Len(tubes) - 1 : d(t) <= d(u) /\ (d(u) = d(t) => t <= u)
               /\ \A p \in Slots :
                      (palette_to_tube[p] = UNASSIGNED /\ palette_to_tube'[p] # UNASSIGNED) =>
                          palette_to_tube'[p] = t
               /\ Len(tubes') = Len(tubes)
               /\ tubes'[t + 1] = Accumulated(tubes[t + 1], s)]_vars

\* GREY_C, equally far from the tubes of GREY_A and GREY_B, arrives with the
\* roster full, gets a new palette slot and goes to the first of the two.
C9_Witness ==
    /\ last.op = "get_tube_for_image"
    /\ last.analysis = Some([average_color |-> GREY_C, variance |-> 10])
    /\ last.ret = Some(0)
    /\ Len(tubes) = TubeCap
    /\ count = TubeCap + 1
    /\ colors[TubeCap] = Some(Accumulated(Seeded(last.analysis[1]), last.analysis[1]))
    /\ palette_to_tube[TubeCap] = 0
    /\ DistTo(GREY_C, colors[0][1]) = DistTo(GREY_C, colors[1][1])

\* C10: add_sample on a populated slot adds the sample to that slot's sums and
\* one to its entry count and changes nothing else; on any other index it
\* changes nothing; it never changes the fill count nor populates a slot.
C10_AddSample ==
    [][last'.op = "add_sample" =>
           LET i == last'.index
           IN  /\ count' = count
               /\ Populated(colors') = Populated(colors)
               /\ IF i \in Populated(colors)
                  THEN colors' = [colors EXCEPT
                                     ![i] = Some(Accumulated(colors[i][1], Sample(last')))]
                  ELSE colors' = colors]_vars

\* A sample accumulated into the second of two populated slots.
C10_Witness ==
    /\ last.op = "add_sample"
    /\ last.index = 1
    /\ count >= 2
    /\ colors[1][1].count >= 2
    /\ colors[1][1].sum_r # colors[1][1].sum_g

----------------------------------------------------------------------------
\* Vocabulary of the frame properties.

\* The frame fails the geometry check: a zero dimension, or a buffer shorter
\* than width * height * 2 bytes.
Undersized(frame) ==
    \/ frame.width = 0
    \/ frame.height = 0
    \/ frame.len < frame.width * frame.height * 2

\* The frame ends before the last candidate centre of the search area.
BelowSearchArea(frame) == frame.width <= MAX_CX /\ frame.height <= MAX_CY

\* C11: the classification path (analyze_image, then the palette and tube
\* bookkeeping of get_tube_for_image) never faults, whatever the buffer, the
\* width and height and the prior state: no index outside the buffer, no
\* division by zero, no push onto a full roster (the roster never exceeds its
\* capacity); every frame, also one smaller than the search area, ends in a
\* normal None or Some(tube) with the tube in the roster.
C11_NoFault ==
    last.op = "classify" =>
        /\ ~last.fault
        /\ Len(tubes) <= TubeCap
        /\ last.analysis = None \/ Len(last.analysis) = 1
        /\ last.ret = None \/ (Len(last.ret) = 1 /\ last.ret[1] \in 0 .. Len(tubes) - 1)

\* A frame that passes the geometry check but ends inside the search area was
\* classified into a tube while the roster was full.
C11_Witness ==
    /\ last.op = "classify"
    /\ ~Undersized(last.frame)
    /\ BelowSearchArea(last.frame)
    /\ last.analysis # None
    /\ last.ret # None
    /\ Len(tubes) = TubeCap
    /\ count > TubeCap

\* C12: for a frame with width 0, height 0 or a buffer shorter than
\* width * height * 2 bytes analyze_image returns None, and the sort cycle
\* then returns None and leaves palette, roster and map as they were.
C12_UndersizedIsNoBead ==
    [][(last'.op = "classify" /\ Undersized(last'.frame)) =>
           /\ last'.analysis = None
           /\ last'.ret = None
           /\ UNCHANGED <<colors, count, tubes, palette_to_tube>>]_vars

\* A 40x30 frame one byte short was rejected by a sorter that already holds
\* colours and tubes.
C12_Witness ==
    /\ last.op = "classify"
    /\ last.frame.width = 40
    /\ last.frame.height = 30
    /\ last.frame.len = 2399
    /\ last.ret = None
    /\ count > 0
    /\ tubes # <<>>

\* C13: for a perfectly uniform frame (every pixel the same RGB565 value), so
\* without contrast between ring and background, analyze_image returns None.
C13_UniformIsNoBead ==
    (last.op = "classify" /\ last.frame.image.kind = "uniform") => last.analysis = None

----------------------------------------------------------------------------
\* The variance difference between a sample and an entry's running average,
\* and the combined metric: dist_lab plus a tenth of that difference.
VarianceGap(variance, e) ==
    IF variance >= PaletteEntry_avg(e).var
    THEN variance - PaletteEntry_avg(e).var
    ELSE PaletteEntry_avg(e).var - variance

Combined(rgb, variance, e) == DistTo(rgb, e) + VarianceGap(variance, e) \div 10

----------------------------------------------------------------------------
\* C15, as stated: for every capacity, colour, variance and threshold a
\* match_color call on an empty palette returns NewEntry(0).
C15_FirstIsNewEntry ==
    [][(last'.op = "match_color" /\ count = 0) => last'.ret = NewEntry(0)]_vars

\* C15, amended: for every capacity of at least one slot, and every colour,
\* variance and threshold, a match_color call on an empty palette returns
\* NewEntry(0).
C15_FirstIsNewEntryIfRoom ==
    [][(last'.op = "match_color" /\ count = 0 /\ Capacity(colors) >= 1) =>
           last'.ret = NewEntry(0)]_vars

\* The first call on a palette of one slot, at threshold 0.
C15_Witness ==
    /\ last.op = "match_color"
    /\ calls = 1
    /\ Capacity(colors) = 1
    /\ last.threshold = 0
    /\ last.ret = NewEntry(0)

----------------------------------------------------------------------------
\* The step presents the colour and threshold of the previous match_color
\* call again.
Repeats ==
    /\ last'.op = "match_color"
    /\ last'.rgb = last.rgb
    /\ last'.threshold = last.threshold

\* The step is the caller's add_sample(i, c, v) for the slot i the previous
\* match_color call returned and the sample (c, v) it was given.
Accumulates ==
    /\ last'.op = "add_sample"
    /\ last'.index = last.ret.idx
    /\ last'.rgb = last.rgb
    /\ last'.variance = last.variance

\* What presenting the previous call's colour and threshold again returns in
\* the state the step leads to.
RepeatAfter == match_color(colors', count', last.rgb, last.variance, last.threshold).ret

----------------------------------------------------------------------------
\* The slot the index names holds nothing: the index is past the array or the
\* slot is unpopulated.
NotFound(index) == index >= N \/ colors[index] = None

\* rgb is, per channel, the entry's sum divided by its count, rounded down.
IsRunningAverage(rgb, e) ==
    /\ e.count * rgb.r <= e.sum_r /\ e.sum_r < e.count * (rgb.r + 1)
    /\ e.count * rgb.g <= e.sum_g /\ e.sum_g < e.count * (rgb.g + 1)
    /\ e.count * rgb.b <= e.sum_b /\ e.sum_b < e.count * (rgb.b + 1)

\* C18: get and get_entry return None for every index >= N and for every
\* unpopulated slot, the running average and the raw accumulator for a
\* populated slot, and leave the palette as it was.
C18_ReadOnlyAccess ==
    [][(last'.op \in {"get", "get_entry"} /\ calls' = calls + 1) =>
           /\ UNCHANGED <<colors, count, tubes, palette_to_tube>>
           /\ NotFound(last'.index) => last'.ret = None
           /\ ~NotFound(last'.index) =>
                  /\ last'.ret # None
                  /\ last'.op = "get" => IsRunningAverage(last'.ret[1], colors[last'.index][1])
                  /\ last'.op = "get_entry" => last'.ret[1] = colors[last'.index][1]]_vars

\* get read a slot that holds more than one sample.
C18_Witness ==
    /\ last.op = "get"
    /\ last.ret # None
    /\ colors[last.index][1].count >= 2

----------------------------------------------------------------------------
\* The entry holds nothing but copies of the sample s.
CopiesOf(e, s) ==
    /\ e.sum_r = e.count * s.average_color.r
    /\ e.sum_g = e.count * s.average_color.g
    /\ e.sum_b = e.count * s.average_color.b
    /\ e.sum_var = e.count * s.variance

\* C19: avg returns per channel the sum divided by the count, rounded down,
\* and the same for the variance; an entry created from a sample and given
\* further copies of that sample averages to the sample.
C19_AvgIsFloor ==
    \A i \in 0 .. N - 1 :
        colors[i] # None =>
            \E e \in {colors[i][1]} : \E a \in {PaletteEntry_avg(e)} :
                /\ IsRunningAverage(a.rgb, e)
                /\ e.count * a.var <= e.sum_var /\ e.sum_var < e.count * (a.var + 1)
                /\ \A s \in MatchSamples \cup AddSamples :
                       CopiesOf(e, s) => a = [rgb |-> s.average_color, var |-> s.variance]

\* A slot holds three or more copies of one sample of nonzero variance.
C19_Witness ==
    \E i \in 0 .. N - 1 :
        /\ colors[i] # None
        /\ colors[i][1].count >= 3
        /\ \E s \in AddSamples : CopiesOf(colors[i][1], s)

----------------------------------------------------------------------------
\* C20: dist_lab is symmetric, and the distance of a colour to itself is 0.
C20_DistLabSymmetric ==
    last.op = "dist_lab" =>
        /\ last.ret = dist_lab(last.b, last.a)
        /\ last.a = last.b => last.ret = 0

\* The distance of two colours that differ in lightness and in both opponent
\* axes was taken.
C20_Witness ==
    /\ last.op = "dist_lab"
    /\ last.ret > 0
    /\ \A k \in 1 .. 3 : to_lab(last.a)[k] # to_lab(last.b)[k]

----------------------------------------------------------------------------
\* The populated slots of cs nearest to rgb in dist_lab.
Nearest(cs, rgb) ==
    {i \in Populated(cs) : \A j \in Populated(cs) : DistTo(rgb, cs[i][1]) <= DistTo(rgb, cs[j][1])}

----------------------------------------------------------------------------
\* The slot a sample of colour rgb resolves to at the sorter's threshold when
\* some populated slot is within it: the lowest of the nearest slots.
ResolvedSlot(cs, rgb) == CHOOSE i \in Nearest(cs, rgb) : \A j \in Nearest(cs, rgb) : i <= j

\* C22: a slot's tube id never changes once assigned, and a call that
\* resolves to a slot that has a tube id returns that id.
C22_MappingStable ==
    [][/\ \A i \in Slots :
              palette_to_tube[i] # UNASSIGNED => palette_to_tube'[i] = palette_to_tube[i]
       /\ (/\ last'.op = "get_tube_for_image"
           /\ calls' = calls + 1
           /\ last'.analysis # None
           /\ Within(colors, last'.analysis[1].average_color, THRESHOLD)) =>
              \E i \in {ResolvedSlot(colors, last'.analysis[1].average_color)} :
                  /\ palette_to_tube[i] # UNASSIGNED
                  /\ last'.ret = Some(palette_to_tube[i])]_vars

\* With the roster full, a slot created after it filled has been resolved to
\* again and the call returned the tube it shares.
C22_Witness ==
    /\ last.op = "get_tube_for_image"
    /\ last.analysis # None
    /\ Len(tubes) = TubeCap
    /\ \E i \in Slots :
           /\ i >= TubeCap
           /\ colors[i] # None
           /\ colors[i][1].count >= 3
           /\ last.ret = Some(palette_to_tube[i])
           /\ tubes[palette_to_tube[i] + 1].count >= 4

----------------------------------------------------------------------------
\* The candidate centres in scan order, cy ascending, then cx ascending.
Candidates == 0 .. (MAX_CX - MIN_CX + 1) * (MAX_CY - MIN_CY + 1) - 1

\* The score of candidate k on its own: None if its annulus has no in-bounds
\* pixel, else dist(annulus mean, background) - total_variance / 8.
CandidateScore(data, width, height, bg_color, k) ==
    The({ IF s.count = 0 THEN None ELSE Some(Score(Stats(s, s.count), bg_color)) :
          s \in {CandidateSums(data, width, height, CenterX(k), CenterY(k))} })

\* The frames whose candidates are scored one by one: all but the uniform
\* deployment frame.
SearchFrames == {frame \in Frames : ~Undersized(frame) /\ (frame.image.kind # "uniform" \/ frame.width < 40)}

\* The score of every candidate of every such frame.
ScoresOf ==
    [frame \in SearchFrames |->
        The({ The({ [k \in Candidates |->
                       CandidateScore(data, frame.width, frame.height, bg.rgb, k)] :
                    bg \in {BackgroundColor(data, frame.width, frame.height)} }) :
              data \in {Data(frame)} })]

Scored(frame) == {k \in Candidates : ScoresOf[frame][k] # None}

\* C23: the search picks, among the candidates whose annulus has an in-bounds
\* pixel, the one of maximal score, the first in scan order among equals; with
\* no such candidate it picks none.
C23_BestCandidate ==
    (last.op = "classify" /\ last.frame \in SearchFrames) =>
        /\ last.best # None
        /\ IF Scored(last.frame) = {}
           THEN last.best[1].stats = None
           ELSE \E k \in Scored(last.frame) :
                    /\ \A j \in Scored(last.frame) :
                           \/ ScoresOf[last.frame][j][1] < ScoresOf[last.frame][k][1]
                           \/ ScoresOf[last.frame][j][1] = ScoresOf[last.frame][k][1] /\ k <= j
                    /\ last.best[1].stats # None
                    /\ last.best[1].score = ScoresOf[last.frame][k][1]
                    /\ last.best[1].cx = CenterX(k)
                    /\ last.best[1].cy = CenterY(k)

\* The winner is not the first candidate scored, an earlier candidate scored
\* lower, and a later one scored the same.
C23_Witness ==
    /\ last.op = "classify"
    /\ last.frame \in SearchFrames
    /\ last.best # None
    /\ \E k \in Scored(last.frame) :
           /\ last.best[1].cx = CenterX(k) /\ last.best[1].cy = CenterY(k)
           /\ \E j \in Scored(last.frame) :
                  j < k /\ ScoresOf[last.frame][j][1] < last.best[1].score
           /\ \E j \in Scored(last.frame) :
                  j > k /\ ScoresOf[last.frame][j][1] = last.best[1].score

----------------------------------------------------------------------------
\* Vocabulary of the refinement properties: the winning annulus read from the
\* frame's image, not from its bytes.

\* The pixel indices (y * width + x) of the in-bounds pixels of the annulus
\* around (cx, cy); ascending index is scan order.
AnnulusOf(frame, cx, cy) ==
    { k \in 0 .. frame.width * frame.height - 1 :
        /\ InRing(k % frame.width, k \div frame.width, cx, cy)
        /\ k * 2 + 1 < frame.len }

\* The colour of every pixel of a set of pixel indices.
ColoursOf(frame, D) ==
    [k \in D |-> from_rgb565(PixelAt(frame.image, k % frame.width, k \div frame.width))]

\* The sum of f over the part of its domain within lo .. hi.
RECURSIVE RangeSum(_, _, _)
RangeSum(f, lo, hi) ==
    IF lo > hi THEN 0
    ELSE IF lo = hi THEN (IF lo \in DOMAIN f THEN f[lo] ELSE 0)
    ELSE RangeSum(f, lo, (lo + hi) \div 2) + RangeSum(f, (lo + hi) \div 2 + 1, hi)

Total(f) ==
    IF DOMAIN f = {} THEN 0
    ELSE RangeSum(f, CHOOSE a \in DOMAIN f : \A b \in DOMAIN f : a <= b,
                  CHOOSE a \in DOMAIN f : \A b \in DOMAIN f : a >= b)

\* Per channel, the sum of colour function c over the indices K, and the sum
\* of the squares.
SumsOver(c, K) ==
    [r |-> Total([k \in K |-> c[k].r]), g |-> Total([k \in K |-> c[k].g]),
     b |-> Total([k \in K |-> c[k].b]),
     sq_r |-> Total([k \in K |-> c[k].r * c[k].r]),
     sq_g |-> Total([k \in K |-> c[k].g * c[k].g]),
     sq_b |-> Total([k \in K |-> c[k].b * c[k].b])]

\* The mean colour and the variance of sums s over n pixels.
MeanOf(s, n) == Rgb(s.r \div n, s.g \div n, s.b \div n)
VarianceOf(s, n) ==
    Max(s.sq_r \div n - Sq(s.r \div n), 0) + Max(s.sq_g \div n - Sq(s.g \div n), 0)
    + Max(s.sq_b \div n - Sq(s.b \div n), 0)

\* The keep pixels of colour function c nearest to colour mean in squared RGB
\* distance, the earlier of equally near ones first.
NearestTo(c, mean, keep) ==
    The({ {k \in DOMAIN c :
             Cardinality({j \in DOMAIN c : d[j] < d[k] \/ (d[j] = d[k] /\ j < k)}) < keep} :
          d \in {[k \in DOMAIN c |-> dist(c[k], mean)]} })

\* The analysis l.ret[1] is the refinement of the annulus around the centre
\* the search of l chose: keep = max(1, floor(p * filter_percent / 100)) of
\* its p pixels are kept, the nearest to the annulus mean, and the colour,
\* variance and pixel count returned are those of the kept pixels.
RefinedFromKept(l) ==
    \E c \in {ColoursOf(l.frame, AnnulusOf(l.frame, l.best[1].cx, l.best[1].cy))} :
      \E p \in {Cardinality(DOMAIN c)} :
        \E keep \in {Max(1, (p * l.config.filter_percent) \div 100)} :
          \E K \in {NearestTo(c, MeanOf(SumsOver(c, DOMAIN c), p), keep)} :
            \E s \in {SumsOver(c, K)} :
              /\ Cardinality(K) = keep
              /\ l.ret[1].pixel_count = keep
              /\ l.ret[1].average_color = MeanOf(s, keep)
              /\ l.ret[1].variance = VarianceOf(s, keep)

----------------------------------------------------------------------------
\* The result of the call of l made without a mask.
Unmasked(l) ==
    analyze_image_debug_searched(Data(l.frame), l.frame.width, l.frame.height, None,
                                 l.config, AnalysisOf[l.frame].best)

\* C25: with a mask of width * height bytes the call completes without fault,
\* returns what it returns without a mask, and writes only 0, 1 and 4 into
\* the mask.
C25_MaskHasNoEffect ==
    (last.op = "analyze_image_debug" /\ last.masked) =>
        /\ ~last.fault
        /\ last.ret = Unmasked(last).ret
        /\ \/ last.mask = Some(NewMask(last.frame.width * last.frame.height))
           \/ \A k \in DOMAIN last.mask[1] : last.mask[1][k] \in {0, 1, 4}

----------------------------------------------------------------------------
\* q is v * 255 / max with integer truncation, and the product fits 16 bits.
Rescaled(q, v, max) ==
    /\ v * 255 < U16
    /\ max * q <= v * 255
    /\ v * 255 < max * (q + 1)
    /\ q \in 0 .. 255

\* C26: from_rgb565 rescales the 5-, 6- and 5-bit fields of p to 0..255 by
\* v * 255 / max, truncating, without overflow; 0x0000 gives (0, 0, 0) and
\* 0xFFFF gives (255, 255, 255).
C26_Rescale ==
    last.op = "from_rgb565" =>
        /\ Rescaled(last.ret.r, last.p \div 2048, 31)
        /\ Rescaled(last.ret.g, (last.p \div 32) % 64, 63)
        /\ Rescaled(last.ret.b, last.p % 32, 31)
        /\ last.p = 0 => last.ret = Rgb(0, 0, 0)
        /\ last.p = U16 - 1 => last.ret = Rgb(255, 255, 255)

\* A value whose three quotients are all inexact.
C26_Witness ==
    /\ last.op = "from_rgb565"
    /\ 31 * last.ret.r < (last.p \div 2048) * 255
    /\ 63 * last.ret.g < ((last.p \div 32) % 64) * 255
    /\ 31 * last.ret.b < (last.p % 32) * 255

----------------------------------------------------------------------------
\* C27: the roster holds one tube per palette slot up to its capacity, a
\* populated slot below the roster capacity has its own tube, of the same
\* index, and two slots share a tube only if one of them lies at or beyond
\* the roster capacity.
C27_OneTubePerEarlySlot ==
    /\ Len(tubes) = Min(count, TubeCap)
    /\ \A i \in Populated(colors) : i < TubeCap => palette_to_tube[i] = i
    /\ \A i \in Populated(colors) : \A j \in Populated(colors) :
           (i # j /\ palette_to_tube[i] = palette_to_tube[j]) => (i >= TubeCap \/ j >= TubeCap)

\* The palette has outgrown the roster and a later slot shares the tube of
\* slot 1.
C27_Witness ==
    /\ count > TubeCap
    /\ Len(tubes) = TubeCap
    /\ \E i \in Populated(colors) : i >= TubeCap /\ palette_to_tube[i] = 1

----------------------------------------------------------------------------
\* The entry count of slot i, and of tube t, less the one of its seed; 0 for
\* a slot or tube that does not exist.
SlotSamples(cs, i) == IF cs[i] = None THEN 0 ELSE cs[i][1].count - 1
TubeSamples(ts, t) == IF t < Len(ts) THEN ts[t + 1].count - 1 ELSE 0

\* The slot a call on colour rgb resolves to: the nearest slot within the
\* threshold, else the slot the fill count names.
SlotFor(cs, cnt, rgb) ==
    The({ IF \E i \in DOMAIN d : d[i] < THRESHOLD
          THEN CHOOSE i \in DOMAIN d : \A j \in DOMAIN d : d[i] < d[j] \/ (d[i] = d[j] /\ i <= j)
          ELSE cnt :
          d \in {[i \in Populated(cs) |-> DistTo(rgb, cs[i][1])]} })

\* C28: every call that returns Some adds one to the entry count of the slot
\* it resolved to and one to that of the tube it returned, a call that creates
\* a slot or a tube included, and no call changes any other count; so the
\* counts less their seeds total the same over slots and over tubes.
C28_CountsFollowCalls ==
    /\ RangeSum([i \in Slots |-> SlotSamples(colors, i)], 0, N - 1) = 0
    /\ [][/\ \E slot \in {IF last'.ret # None
                            THEN SlotFor(colors, count, last'.analysis[1].average_color)
                            ELSE N} :
                \A i \in Slots :
                    SlotSamples(colors', i) = SlotSamples(colors, i) + (IF i = slot THEN 1 ELSE 0)
          /\ \A t \in 0 .. TubeCap - 1 :
                TubeSamples(tubes', t) =
                    TubeSamples(tubes, t) + (IF last'.ret = Some(t) THEN 1 ELSE 0)
          /\ RangeSum([i \in Slots |-> SlotSamples(colors', i)], 0, N - 1)
                 = RangeSum([t \in 0 .. TubeCap - 1 |-> TubeSamples(tubes', t)], 0, TubeCap - 1)]_vars

\* A tube shared by two slots counts the calls of both: it holds more samples
\* than either slot, and the last call created a slot.
C28_Witness ==
    /\ last.op = "get_tube_for_image"
    /\ last.ret # None
    /\ \E i \in Populated(colors) :
           /\ colors[i][1].count = 2
           /\ i >= TubeCap
           /\ last.ret = Some(palette_to_tube[i])
           /\ TubeSamples(tubes, palette_to_tube[i]) > SlotSamples(colors, palette_to_tube[i])
           /\ SlotSamples(colors, palette_to_tube[i]) >= 2

----------------------------------------------------------------------------
\* The least score a candidate can get: contrast 0 and the variance of
\* 8-bit channels at its largest, 255 * 255 per channel.
MinScore == 0 - ((3 * 255 * 255) \div 8)

\* C29: every scored candidate scores far above the cutoff, so analyze_image
\* returns None only when the geometry check fails or no candidate is scored,
\* and returns an analysis of at least one pixel whenever one is.
C29_CutoffNeverRejects ==
    last.op = "classify" =>
        /\ MinScore > SCORE_CUTOFF
        /\ last.frame \in SearchFrames =>
               \A k \in Scored(last.frame) : ScoresOf[last.frame][k][1] >= MinScore
        /\ (last.best # None /\ last.best[1].stats # None) => last.best[1].score >= MinScore
        /\ last.analysis = None <=>
               (Undersized(last.frame) \/ last.best = None \/ last.best[1].stats = None)
        /\ last.analysis # None => last.analysis[1].pixel_count >= 1

\* A frame all of whose candidates score below 0 is analysed.
C29_Witness ==
    /\ last.op = "classify"
    /\ last.frame \in SearchFrames
    /\ Scored(last.frame) # {}
    /\ \A k \in Scored(last.frame) : ScoresOf[last.frame][k][1] < 0
    /\ last.analysis # None
    /\ last.analysis[1].pixel_count > 1

----------------------------------------------------------------------------
\* C30: for every filter_percent the pixel count returned is at least 1 and
\* at most the number of in-bounds pixels of the winning annulus, itself at
\* most 256, and the colour and variance returned are those of that many
\* pixels of the annulus.
C30_CountWithinAnnulus ==
    (last.op = "analyze_image_debug" /\ last.ret # None) =>
        \E c \in {ColoursOf(last.frame, AnnulusOf(last.frame, last.best[1].cx, last.best[1].cy))} :
            /\ last.ret[1].pixel_count >= 1
            /\ last.ret[1].pixel_count <= Cardinality(DOMAIN c)
            /\ Cardinality(DOMAIN c) <= PIXELS_LEN
            /\ \E K \in {NearestTo(c, MeanOf(SumsOver(c, DOMAIN c), Cardinality(DOMAIN c)),
                                   last.ret[1].pixel_count)} :
                   /\ last.ret[1].average_color = MeanOf(SumsOver(c, K), Cardinality(K))
                   /\ last.ret[1].variance = VarianceOf(SumsOver(c, K), Cardinality(K))

====
